---------------------------- MODULE Spec2Model ----------------------------
(***************************************************************************)
(* WokiBrain booking engine: the gap engine, the candidate generator, the  *)
(* selection policy, the in-memory store (reservations, leases,            *)
(* idempotency records) and the four HTTP handlers that use them.          *)
(*                                                                         *)
(* Time.  A JavaScript Date is modelled as an integer number of minutes    *)
(* since 00:00 UTC of day 0 (every Date the program builds has seconds and *)
(* milliseconds zero).  An ISO string is a record [d, m, off]: the date    *)
(* and the time of day it spells, and the minutes to add to reach UTC      *)
(* ("Z" is 0, "-03:00" is 180).  A date string "YYYY-MM-DD" is a day       *)
(* number; a time string "HH:mm" is the pair <<HH, mm>>.  Date.now() is    *)
(* the variable now, in milliseconds from an arbitrary origin.             *)
(***************************************************************************)
EXTENDS Integers, Sequences, FiniteSets, TLC

VARIABLES
    now,          \* Date.now(), milliseconds
    tz,           \* minutes to add to the process's local time to reach UTC
    bookings,     \* MemoryStore.bookings: the records in insertion order
    locks,        \* MemoryStore._locks: lock key -> expiry (ms)
    idempotency,  \* MemoryStore._idempotency: key -> [booking, expiresAt]
    nextId,       \* the next fresh reservation id
    ticks,        \* how many times the clock has advanced
    ev,           \* the reply of the last call made at the current instant
    fin,          \* input of the gap-engine specification (SpecGaps)
    fout          \* output of the gap-engine specification (SpecGaps)

vars == <<now, tz, bookings, locks, idempotency, nextId, ticks, ev, fin, fout>>

-----------------------------------------------------------------------------
(* Bounds of the model *)

MaxBookings == 2      \* reservations committed by requests
MaxTicks == 1         \* advances of the clock
MaxCancels == 1       \* reservations cancelled
MaxGapBookings == 2   \* reservations in an input of the gap engine
MaxPlanBookings == 2  \* reservations in an input of the candidate generator
MaxGapLists == 3      \* gap lists in an input of intersectGaps

-----------------------------------------------------------------------------
(* Program constants *)

MinutesPerDay == 1440
SlotMinutes == 15
LockTtlMs == 5000
IdempotencyTtlMs == 86400000

undefined == "undefined"
NoKey == "undefined"      \* request.headers['idempotency-key'] when the header is absent
NoBooking == 0            \* no reservation id: the ids start at FirstId
FirstId == 1
StartNow == 1000

-----------------------------------------------------------------------------
(* Sequence helpers.  Array.prototype.map is written as a function        *)
(* constructor over the indices of the array.                              *)

RECURSIVE Flatten(_)
Flatten(ss) == IF ss = <<>> THEN <<>> ELSE Head(ss) \o Flatten(Tail(ss))

Includes(s, x) == \E i \in 1..Len(s) : s[i] = x

RECURSIVE SumSeq(_)
SumSeq(s) == IF s = <<>> THEN 0 ELSE Head(s) + SumSeq(Tail(s))

-----------------------------------------------------------------------------
(* Dates and strings *)

\* parseISO of a full ISO datetime string
parseISO(s) == s.d * MinutesPerDay + s.m + s.off

\* Date.prototype.toISOString: always UTC ("Z")
toISOString(t) == [d |-> t \div MinutesPerDay, m |-> t % MinutesPerDay, off |-> 0]

\* set(parseISO(date), {hours, minutes, seconds: 0, milliseconds: 0}): local time
parseTime(date, time) == date * MinutesPerDay + time[1] * 60 + time[2] + tz

addMinutes(t, n) == t + n

\* String.prototype.localeCompare on two ISO strings of the same layout:
\* date first, then time of day (-1, 0, 1)
isoCompare(a, b) ==
    IF a.d # b.d THEN (IF a.d < b.d THEN -1 ELSE 1)
    ELSE IF a.m # b.m THEN (IF a.m < b.m THEN -1 ELSE 1)
    ELSE IF a.off # b.off THEN (IF a.off < b.off THEN -1 ELSE 1)
    ELSE 0

\* b.start.startsWith(date)
startsWith(iso, date) == iso.d = date

-----------------------------------------------------------------------------
(* Gap engine: src/src/domain/gaps.ts *)

TimeSlot(s, e) == [start |-> s, end |-> e]

\* Array.prototype.sort((a, b) => a.start - b.start): stable
RECURSIVE insertByStart(_, _)
insertByStart(sorted, x) ==
    IF sorted = <<>> THEN <<x>>
    ELSE IF Head(sorted).start <= x.start
         THEN <<Head(sorted)>> \o insertByStart(Tail(sorted), x)
         ELSE <<x>> \o sorted

\* the sort left out: the reservations in the order of the store
sortByStart_unsorted(s) == s

RECURSIVE sortByStart(_)
sortByStart(s) ==
    IF s = <<>> THEN <<>>
    ELSE insertByStart(sortByStart(SubSeq(s, 1, Len(s) - 1)), s[Len(s)])

\* the windows of findGaps as TimeSlots: the day 00:00-23:59 when none is given
searchWindowsOf(date, windows) ==
    IF Len(windows) = 0
    THEN <<TimeSlot(parseTime(date, <<0, 0>>), parseTime(date, <<23, 59>>))>>
    ELSE [i \in 1..Len(windows) |->
             TimeSlot(parseTime(date, windows[i].start), parseTime(date, windows[i].end))]

\* .map(booking => ({ start: parseISO(booking.start), end: parseISO(booking.end) }))
startsAndEnds(bks) ==
    [i \in 1..Len(bks) |-> TimeSlot(parseISO(bks[i].start), parseISO(bks[i].end))]

\* the filter with its status test inverted: only the cancelled reservations
tableBookingsOf_cancelledOnly(tableId, bks) ==
    sortByStart(startsAndEnds(
        SelectSeq(bks, LAMBDA b : Includes(b.tableIds, tableId) /\ b.status = "CANCELLED")))

\* the filter without its status test: cancelled reservations included
tableBookingsOf_anyStatus(tableId, bks) ==
    sortByStart(startsAndEnds(SelectSeq(bks, LAMBDA b : Includes(b.tableIds, tableId))))

\* the reservations of the table: not cancelled, as Dates, sorted by start
tableBookingsOf(tableId, bks) ==
    sortByStart(startsAndEnds(
        SelectSeq(bks, LAMBDA b : Includes(b.tableIds, tableId) /\ b.status # "CANCELLED")))

\* the inner loop with the end of a reservation taken as occupied: the
\* cursor moves one minute past it
RECURSIVE sweepBookings_endInclusive(_, _, _, _, _, _)
sweepBookings_endInclusive(tb, i, window, current, gaps, duration) ==
    IF i > Len(tb) THEN [current |-> current, gaps |-> gaps]
    ELSE LET booking == tb[i] IN
         IF booking.end < window.start
         THEN sweepBookings_endInclusive(tb, i + 1, window, current, gaps, duration)
         ELSE IF booking.start > window.end
         THEN [current |-> current, gaps |-> gaps]
         ELSE LET gaps1 == IF current < booking.start /\ booking.start - current >= duration
                           THEN Append(gaps, TimeSlot(current, booking.start))
                           ELSE gaps
                  current1 == IF booking.end >= current THEN booking.end + 1 ELSE current
              IN sweepBookings_endInclusive(tb, i + 1, window, current1, gaps1, duration)

\* the inner loop of findGaps over tableBookings[i..], with the cursor and
\* the gaps pushed so far; returns the cursor and the gaps after the loop
RECURSIVE sweepBookings(_, _, _, _, _, _)
sweepBookings(tb, i, window, current, gaps, duration) ==
    IF i > Len(tb) THEN [current |-> current, gaps |-> gaps]
    ELSE LET booking == tb[i] IN
         IF booking.end < window.start
         THEN sweepBookings(tb, i + 1, window, current, gaps, duration)
         ELSE IF booking.start > window.end
         THEN [current |-> current, gaps |-> gaps]
         ELSE LET gaps1 == IF current < booking.start /\ booking.start - current >= duration
                           THEN Append(gaps, TimeSlot(current, booking.start))
                           ELSE gaps
                  current1 == IF booking.end > current THEN booking.end ELSE current
              IN sweepBookings(tb, i + 1, window, current1, gaps1, duration)

\* the duration test of the trailing gap left out
trailingGap_anyLength(r, window, duration) ==
    IF r.current < window.end
    THEN Append(r.gaps, TimeSlot(r.current, window.end))
    ELSE r.gaps

\* the trailing gap of a window (lines 83-88), after the inner loop returned r
trailingGap(r, window, duration) ==
    IF r.current < window.end /\ window.end - r.current >= duration
    THEN Append(r.gaps, TimeSlot(r.current, window.end))
    ELSE r.gaps

\* the body of "for (const window of searchWindows)" for one window
sweepWindow(tb, window, gaps, duration) ==
    trailingGap(sweepBookings(tb, 1, window, window.start, gaps, duration), window, duration)

RECURSIVE sweepWindows(_, _, _, _, _)
sweepWindows(tb, sw, i, gaps, duration) ==
    IF i > Len(sw) THEN gaps
    ELSE sweepWindows(tb, sw, i + 1, sweepWindow(tb, sw[i], gaps, duration), duration)

findGaps(tableId, bks, date, duration, windows) ==
    sweepWindows(tableBookingsOf(tableId, bks), searchWindowsOf(date, windows), 1, <<>>, duration)

\* the fold step without the test of the duration
intersectTwo_anyLength(commonGaps, nextGaps, duration) ==
    Flatten([i \in 1..Len(commonGaps) |->
        Flatten([j \in 1..Len(nextGaps) |->
            LET compared == commonGaps[i]
                nextToCompare == nextGaps[j]
                start == IF compared.start > nextToCompare.start
                         THEN compared.start ELSE nextToCompare.start
                end == IF compared.end < nextToCompare.end
                       THEN compared.end ELSE nextToCompare.end
            IN IF start < end THEN <<TimeSlot(start, end)>> ELSE <<>>])])

\* the fold step that keeps the gaps it had
intersectTwo_keepsFirst(commonGaps, nextGaps, duration) == commonGaps

\* one fold step of intersectGaps: every (compared, nextToCompare) pair
intersectTwo(commonGaps, nextGaps, duration) ==
    Flatten([i \in 1..Len(commonGaps) |->
        Flatten([j \in 1..Len(nextGaps) |->
            LET compared == commonGaps[i]
                nextToCompare == nextGaps[j]
                start == IF compared.start > nextToCompare.start
                         THEN compared.start ELSE nextToCompare.start
                end == IF compared.end < nextToCompare.end
                       THEN compared.end ELSE nextToCompare.end
            IN IF start < end /\ end - start >= duration
               THEN <<TimeSlot(start, end)>> ELSE <<>>])])

RECURSIVE intersectFrom(_, _, _, _)
intersectFrom(gaps, i, commonGaps, duration) ==
    IF i > Len(gaps) THEN commonGaps
    ELSE intersectFrom(gaps, i + 1, intersectTwo(commonGaps, gaps[i], duration), duration)

intersectGaps(gaps, duration) ==
    IF Len(gaps) = 0 THEN <<>> ELSE intersectFrom(gaps, 2, gaps[1], duration)

\* the while loop of discretizeGaps for one gap, from the cursor current
RECURSIVE slideGap(_, _, _, _, _, _)
slideGap(current, lastStart, durationMinutes, tableIds, kind, waste) ==
    IF current <= lastStart
    THEN <<[kind |-> kind, tableIds |-> tableIds,
            start |-> toISOString(current),
            end |-> toISOString(addMinutes(current, durationMinutes)),
            waste |-> waste]>>
         \o slideGap(addMinutes(current, SlotMinutes), lastStart, durationMinutes,
                     tableIds, kind, waste)
    ELSE <<>>

\* the last start taken to be the end of the gap
discretizeGaps_toGapEnd(gaps, durationMinutes, tableIds, kind, waste) ==
    Flatten([i \in 1..Len(gaps) |->
        slideGap(gaps[i].start, gaps[i].end, durationMinutes, tableIds, kind, waste)])

\* the candidate that ends exactly at the end of the gap left out
discretizeGaps_strict(gaps, durationMinutes, tableIds, kind, waste) ==
    Flatten([i \in 1..Len(gaps) |->
        slideGap(gaps[i].start, addMinutes(gaps[i].end, -durationMinutes) - 1,
                 durationMinutes, tableIds, kind, waste)])

discretizeGaps(gaps, durationMinutes, tableIds, kind, waste) ==
    Flatten([i \in 1..Len(gaps) |->
        slideGap(gaps[i].start, addMinutes(gaps[i].end, -durationMinutes),
                 durationMinutes, tableIds, kind, waste)])

-----------------------------------------------------------------------------
(* Candidate generator and selection policy: src/src/domain/wokibrain.ts *)

\* the policy with the limits of the steps excluded
getDurationForPartySize_exclusive(partySize) ==
    IF partySize < 2 THEN 75
    ELSE IF partySize < 4 THEN 90
    ELSE IF partySize < 8 THEN 120
    ELSE 150

getDurationForPartySize(partySize) ==
    IF partySize <= 2 THEN 75
    ELSE IF partySize <= 4 THEN 90
    ELSE IF partySize <= 8 THEN 120
    ELSE 150

getComboCapacity(tables) ==
    [min |-> SumSeq([i \in 1..Len(tables) |-> tables[i].minSize]),
     max |-> SumSeq([i \in 1..Len(tables) |-> tables[i].maxSize])]

\* arr.reduce((subsets, value) => subsets.concat(subsets.map(set => [value, ...set])), [[]])
RECURSIVE getAllCombinations(_)
getAllCombinations(arr) ==
    IF arr = <<>> THEN << <<>> >>
    ELSE LET subsets == getAllCombinations(SubSeq(arr, 1, Len(arr) - 1))
             value == arr[Len(arr)]
         IN subsets \o [i \in 1..Len(subsets) |-> <<value>> \o subsets[i]]

\* the candidates of one table in the single phase
singleCandidates(table, bks, date, partySize, duration, windows) ==
    IF partySize >= table.minSize /\ partySize <= table.maxSize
    THEN discretizeGaps(findGaps(table.id, bks, date, duration, windows), duration,
                        <<table.id>>, "single", table.maxSize - partySize)
    ELSE <<>>

\* the combo phase without the test of the summed minimum
comboCandidates_noMinimum(combo, bks, date, partySize, duration, windows) ==
    IF Len(combo) < 2 THEN <<>>
    ELSE LET cap == getComboCapacity(combo) IN
         IF partySize <= cap.max
         THEN discretizeGaps(
                  intersectGaps([i \in 1..Len(combo) |->
                                    findGaps(combo[i].id, bks, date, duration, windows)],
                                duration),
                  duration, [i \in 1..Len(combo) |-> combo[i].id], "combo",
                  cap.max - partySize)
         ELSE <<>>

\* the candidates of one subset in the combo phase
comboCandidates(combo, bks, date, partySize, duration, windows) ==
    IF Len(combo) < 2 THEN <<>>
    ELSE LET cap == getComboCapacity(combo) IN
         IF partySize >= cap.min /\ partySize <= cap.max
         THEN discretizeGaps(
                  intersectGaps([i \in 1..Len(combo) |->
                                    findGaps(combo[i].id, bks, date, duration, windows)],
                                duration),
                  duration, [i \in 1..Len(combo) |-> combo[i].id], "combo",
                  cap.max - partySize)
         ELSE <<>>

findCandidates(tables, bks, date, partySize, duration, windows) ==
    LET combos == getAllCombinations(tables) IN
    Flatten([i \in 1..Len(tables) |->
                singleCandidates(tables[i], bks, date, partySize, duration, windows)])
    \o Flatten([i \in 1..Len(combos) |->
                comboCandidates(combos[i], bks, date, partySize, duration, windows)])

\* the rank of a table id in the order localeCompare gives the ids
tableRank(id) == CASE id = "T1" -> 1 [] id = "T2" -> 2 [] id = "T3" -> 3 [] OTHER -> 4

\* a.tableIds.join(',').localeCompare(b.tableIds.join(',')): the ids have
\* one length, so the joined strings compare id by id, a prefix first
RECURSIVE joinCompare(_, _)
joinCompare(a, b) ==
    IF a = <<>> /\ b = <<>> THEN 0
    ELSE IF a = <<>> THEN -1
    ELSE IF b = <<>> THEN 1
    ELSE IF tableRank(Head(a)) # tableRank(Head(b))
         THEN (IF tableRank(Head(a)) < tableRank(Head(b)) THEN -1 ELSE 1)
         ELSE joinCompare(Tail(a), Tail(b))

\* the comparator without the tie-break on the table ids
compareCandidates_noTableIds(a, b) ==
    IF a.kind # b.kind THEN (IF a.kind = "single" THEN -1 ELSE 1)
    ELSE IF a.waste # b.waste THEN a.waste - b.waste
    ELSE IF a.start # b.start THEN isoCompare(a.start, b.start)
    ELSE 0

\* the comparator with the waste compared before the kind
compareCandidates_wasteFirst(a, b) ==
    IF a.waste # b.waste THEN a.waste - b.waste
    ELSE IF a.kind # b.kind THEN (IF a.kind = "single" THEN -1 ELSE 1)
    ELSE IF a.start # b.start THEN isoCompare(a.start, b.start)
    ELSE joinCompare(a.tableIds, b.tableIds)

\* the comparator of selectBestCandidate: negative when a sorts before b
compareCandidates(a, b) ==
    IF a.kind # b.kind THEN (IF a.kind = "single" THEN -1 ELSE 1)
    ELSE IF a.waste # b.waste THEN a.waste - b.waste
    ELSE IF a.start # b.start THEN isoCompare(a.start, b.start)
    ELSE joinCompare(a.tableIds, b.tableIds)

\* candidates.sort(cmp)[0] ?? null (null is <<>>, a candidate c is <<c>>): the
\* sort is stable, so the first element is the earliest element of the list
\* that no other element sorts before
selectBestCandidate(candidates) ==
    IF Len(candidates) = 0 THEN <<>>
    ELSE LET i == CHOOSE i \in 1..Len(candidates) :
                    /\ \A j \in 1..Len(candidates) :
                           compareCandidates(candidates[j], candidates[i]) >= 0
                    /\ \A j \in 1..(i - 1) :
                           compareCandidates(candidates[j], candidates[i]) > 0
         IN <<candidates[i]>>

-----------------------------------------------------------------------------
(* The catalogue the store is seeded with (loadSeed): one restaurant with   *)
(* the two service windows of the seed, one sector, tables of that sector   *)
(* and of another one, and the seed's reservation B1 on T2.                 *)

Restaurant ==
    [id |-> "R1",
     windows |-> <<[start |-> <<12, 0>>, end |-> <<16, 0>>],
                   [start |-> <<20, 0>>, end |-> <<23, 45>>]>>]

Sector == [id |-> "S1", restaurantId |-> "R1"]

Tables ==
    <<[id |-> "T1", sectorId |-> "S1", minSize |-> 2, maxSize |-> 2],
      [id |-> "T2", sectorId |-> "S1", minSize |-> 2, maxSize |-> 4],
      [id |-> "T3", sectorId |-> "S1", minSize |-> 2, maxSize |-> 2],
      [id |-> "T4", sectorId |-> "S2", minSize |-> 6, maxSize |-> 10]>>

SeedBookings ==
    <<[id |-> 1, restaurantId |-> "R1", sectorId |-> "S1", tableIds |-> <<"T2">>,
       partySize |-> 3, durationMinutes |-> 45,
       start |-> [d |-> 0, m |-> 1230, off |-> 180],
       end |-> [d |-> 0, m |-> 1275, off |-> 180],
       status |-> "CONFIRMED", updatedAt |-> 0]>>

-----------------------------------------------------------------------------
(* MemoryStore: src/src/store/db.ts.  Each method is an operator on the     *)
(* maps it reads and writes; t is the value of Date.now() in the call.      *)

\* Map.prototype.set
MapSet(m, k, v) == [x \in DOMAIN m \cup {k} |-> IF x = k THEN v ELSE m[x]]

\* Map.prototype.delete
MapDelete(m, k) == [x \in DOMAIN m \ {k} |-> m[x]]

\* an optional record is a sequence of length 0 (undefined, null) or 1
getRestaurant(id) == IF Restaurant.id = id THEN <<Restaurant>> ELSE <<>>

getSector(id) == IF Sector.id = id THEN <<Sector>> ELSE <<>>

getTables(sectorId) == SelectSeq(Tables, LAMBDA t : t.sectorId = sectorId)

getBookings(bks, sectorId, date) ==
    SelectSeq(bks, LAMBDA b : /\ b.sectorId = sectorId
                              /\ startsWith(b.start, date)
                              /\ b.status # "CANCELLED")

getAllBookings(bks) == bks

hasBooking(bks, id) == \E i \in 1..Len(bks) : bks[i].id = id

\* this.bookings.get(id), for an id the map holds
bookingOf(bks, id) == bks[CHOOSE i \in 1..Len(bks) : bks[i].id = id]

\* the new record takes the place of the last record of the map
addBooking_overwrites(bks, booking) ==
    IF bks = <<>> THEN <<booking>>
    ELSE [i \in 1..Len(bks) |-> IF i = Len(bks) THEN booking ELSE bks[i]]

\* this.bookings.set(booking.id, booking): a new key goes last, a known key keeps its place
addBooking(bks, booking) ==
    IF hasBooking(bks, booking.id)
    THEN [i \in 1..Len(bks) |-> IF bks[i].id = booking.id THEN booking ELSE bks[i]]
    ELSE Append(bks, booking)

\* the record deleted from the map
cancelBooking_removes(bks, id, t) ==
    IF ~hasBooking(bks, id) THEN [ok |-> FALSE, bookings |-> bks]
    ELSE [ok |-> TRUE, bookings |-> SelectSeq(bks, LAMBDA b : b.id # id)]

\* returns [ok, bookings]
cancelBooking(bks, id, t) ==
    IF ~hasBooking(bks, id) THEN [ok |-> FALSE, bookings |-> bks]
    ELSE [ok |-> TRUE,
          bookings |-> [i \in 1..Len(bks) |->
                           IF bks[i].id = id
                           THEN [bks[i] EXCEPT !.status = "CANCELLED", !.updatedAt = t]
                           ELSE bks[i]]]

\* the test of the existing entry left out: every call takes the lease
acquireLock_always(l, key, ttlMs, t) ==
    [ok |-> TRUE, locks |-> MapSet(l, key, t + ttlMs)]

\* an entry at the instant of its expiry still counts as held
acquireLock_inclusive(l, key, ttlMs, t) ==
    IF key \in DOMAIN l /\ l[key] # 0 /\ l[key] >= t
    THEN [ok |-> FALSE, locks |-> l]
    ELSE [ok |-> TRUE, locks |-> MapSet(l, key, t + ttlMs)]

\* a failed acquisition deletes the holder's entry
acquireLock_drops(l, key, ttlMs, t) ==
    IF key \in DOMAIN l /\ l[key] # 0 /\ l[key] > t
    THEN [ok |-> FALSE, locks |-> MapDelete(l, key)]
    ELSE [ok |-> TRUE, locks |-> MapSet(l, key, t + ttlMs)]

\* the test of the expiry left out: an entry is held until it is deleted
acquireLock_noExpiry(l, key, ttlMs, t) ==
    IF key \in DOMAIN l /\ l[key] # 0
    THEN [ok |-> FALSE, locks |-> l]
    ELSE [ok |-> TRUE, locks |-> MapSet(l, key, t + ttlMs)]

\* returns [ok, locks]; "existing && existing > now"
acquireLock(l, key, ttlMs, t) ==
    IF key \in DOMAIN l /\ l[key] # 0 /\ l[key] > t
    THEN [ok |-> FALSE, locks |-> l]
    ELSE [ok |-> TRUE, locks |-> MapSet(l, key, t + ttlMs)]

\* the entry is not deleted
releaseLock_noop(l, key) == l

\* this._locks.clear() in place of this._locks.delete(key)
releaseLock_clear(l, key) == <<>>

releaseLock(l, key) == MapDelete(l, key)

\* the lookup that never finds a record
getIdempotency_miss(idem, key, t) == [ret |-> NoBooking, idempotency |-> idem]

\* an entry at the instant of its expiry still counts as recorded
getIdempotency_afterExpiry(idem, key, t) ==
    IF key \notin DOMAIN idem THEN [ret |-> NoBooking, idempotency |-> idem]
    ELSE IF idem[key].expiresAt < t
         THEN [ret |-> NoBooking, idempotency |-> MapDelete(idem, key)]
         ELSE [ret |-> idem[key].booking, idempotency |-> idem]

\* returns [ret, idempotency]: the id of the recorded reservation (the map holds
\* a reference to the record of this.bookings) or NoBooking for undefined, and
\* the map after the eviction of an expired entry
getIdempotency(idem, key, t) ==
    IF key \notin DOMAIN idem THEN [ret |-> NoBooking, idempotency |-> idem]
    ELSE IF idem[key].expiresAt <= t
         THEN [ret |-> NoBooking, idempotency |-> MapDelete(idem, key)]
         ELSE [ret |-> idem[key].booking, idempotency |-> idem]

\* the record is not written
setIdempotency_dropped(idem, key, booking, ttlMs, t) == idem

setIdempotency(idem, key, booking, ttlMs, t) ==
    MapSet(idem, key, [booking |-> booking, expiresAt |-> t + ttlMs])

\* the callback evicts the entries that expire within the next term as well
sweepIdempotency_ahead(idem, t) ==
    [k \in {x \in DOMAIN idem : ~(idem[x].expiresAt <= t + IdempotencyTtlMs)} |-> idem[k]]

\* the callback of setInterval in the constructor
sweepIdempotency(idem, t) ==
    [k \in {x \in DOMAIN idem : ~(idem[x].expiresAt <= t)} |-> idem[k]]

-----------------------------------------------------------------------------
(* Requests *)

W(h1, m1, h2, m2) == [windowStart |-> <<h1, m1>>, windowEnd |-> <<h2, m2>>]
NoWindow == [windowStart |-> undefined, windowEnd |-> undefined]

Body(restaurantId, sectorId, partySize, date, w) ==
    [restaurantId |-> restaurantId, sectorId |-> sectorId, partySize |-> partySize,
     date |-> date, windowStart |-> w.windowStart, windowEnd |-> w.windowEnd]

\* the request bodies the model draws from
Bodies ==
    {Body("R1", "S1", 2, 0, W(20, 0, 21, 30)),
     Body("R1", "S1", 2, 0, W(21, 15, 22, 30)),
     Body("R1", "S1", 6, 0, NoWindow),
     Body("R1", "S1", 2, 1, W(20, 0, 21, 30)),
     Body("RX", "S1", 2, 0, W(20, 0, 21, 30)),
     Body("R1", "S1", 2, 0, W(10, 0, 11, 0)),
     Body("R1", "S1", 0, 0, NoWindow)}

IdempotencyKeys == {NoKey, "K1"}

TimeZones == {0, 180}

TickSteps == {LockTtlMs, IdempotencyTtlMs}

\* the keys another caller of the store takes leases on
HolderKeys == {<<"R1", "S1", 0>>}

CancelIds == {FirstId, FirstId + 1, FirstId + 2, 99}

\* CreateBookingSchema.safeParse(request.body).success, for the fields the model varies
validBody(body) == body.partySize > 0

\* `${restaurantId}:${sectorId}:${date}`
lockKeyOf(body) == <<body.restaurantId, body.sectorId, body.date>>

-----------------------------------------------------------------------------
(* POST /woki/bookings: src/unnamed/part_003, bookings.  The handler is    *)
(* written as a chain of operators, one per stretch of its code; each      *)
(* returns the reply and the store the handler leaves.                     *)

Reply(status, error, id, acquired, bks, lks, idem, nid) ==
    [status |-> status, error |-> error, id |-> id, acquired |-> acquired,
     bookings |-> bks, locks |-> lks, idempotency |-> idem, nextId |-> nid]

\* a return inside the try block that leaves the store as it found it
Same(status, error, idem) ==
    [status |-> status, error |-> error, id |-> NoBooking,
     bookings |-> bookings, idempotency |-> idem, nextId |-> nextId]

\* lines 133-152: the commit of the chosen candidate
commit(key, body, idem, durationMinutes, best) ==
    LET newBooking ==
            [id |-> nextId, restaurantId |-> body.restaurantId,
             sectorId |-> body.sectorId, tableIds |-> best.tableIds,
             partySize |-> body.partySize, durationMinutes |-> durationMinutes,
             start |-> best.start, end |-> best.end,
             status |-> "CONFIRMED", updatedAt |-> now]
    IN [status |-> 201, error |-> "", id |-> newBooking.id,
        bookings |-> addBooking(bookings, newBooking),
        idempotency |-> IF key # NoKey
                        THEN setIdempotency(idem, key, newBooking.id, IdempotencyTtlMs, now)
                        ELSE idem,
        nextId |-> nextId + 1]

\* no candidate is answered with an empty success
afterSelect_emptySuccess(key, body, idem, durationMinutes, best) ==
    IF best = <<>> THEN Same(201, "", idem)
    ELSE commit(key, body, idem, durationMinutes, best[1])

\* lines 129-152: best is what selectBestCandidate returned
afterSelect(key, body, idem, durationMinutes, best) ==
    IF best = <<>> THEN Same(409, "no_capacity", idem)
    ELSE commit(key, body, idem, durationMinutes, best[1])

\* lines 121-124
searchWindowsFor(body, restaurant) ==
    IF body.windowStart # undefined /\ body.windowEnd # undefined
    THEN <<[start |-> body.windowStart, end |-> body.windowEnd]>>
    ELSE restaurant.windows

\* the tables of every sector are searched
allocate_anySector(key, body, idem, durationMinutes, restaurant) ==
    afterSelect(key, body, idem, durationMinutes,
        selectBestCandidate(
            findCandidates(Tables, getAllBookings(bookings), body.date,
                           body.partySize, durationMinutes,
                           searchWindowsFor(body, restaurant))))

\* lines 118-152, with the restaurant found
allocate(key, body, idem, durationMinutes, restaurant) ==
    afterSelect(key, body, idem, durationMinutes,
        selectBestCandidate(
            findCandidates(getTables(body.sectorId), getAllBookings(bookings), body.date,
                           body.partySize, durationMinutes,
                           searchWindowsFor(body, restaurant))))

\* lines 116-152
afterRestaurant(key, body, idem, restaurant) ==
    IF restaurant = <<>> THEN Same(404, "not_found", idem)
    ELSE allocate(key, body, idem, getDurationForPartySize(body.partySize), restaurant[1])

\* the try block (lines 115-152), entered with the lease held; fault is an
\* exception thrown inside it before the commit
guardedSection(key, body, idem, fault) ==
    IF fault THEN Same(500, "exception", idem)
    ELSE afterRestaurant(key, body, idem, getRestaurant(body.restaurantId))

\* the finally block (lines 153-155) after the try block returned g
finally(g, lks, lockKey) ==
    Reply(g.status, g.error, g.id, TRUE, g.bookings, releaseLock(lks, lockKey),
          g.idempotency, g.nextId)

\* lines 111-155: lease is what acquireLock returned
\* the acquisition made inside the try block: the lease is given back on
\* the conflict exit as well
afterAcquire_inTry(key, body, idem, fault, lease) ==
    IF ~lease.ok
    THEN Reply(409, "conflict", NoBooking, FALSE, bookings,
               releaseLock(lease.locks, lockKeyOf(body)), idem, nextId)
    ELSE finally(guardedSection(key, body, idem, fault), lease.locks, lockKeyOf(body))

afterAcquire(key, body, idem, fault, lease) ==
    IF ~lease.ok
    THEN Reply(409, "conflict", NoBooking, FALSE, bookings, lease.locks, idem, nextId)
    ELSE finally(guardedSection(key, body, idem, fault), lease.locks, lockKeyOf(body))

\* the body is validated before the result of the lookup is looked at
afterLookup_validatesFirst(key, body, fault, existing) ==
    IF ~validBody(body)
    THEN Reply(400, "invalid_input", NoBooking, FALSE, bookings, locks,
               existing.idempotency, nextId)
    ELSE IF existing.ret # NoBooking
    THEN Reply(200, "", existing.ret, FALSE, bookings, locks, existing.idempotency, nextId)
    ELSE afterAcquire(key, body, existing.idempotency, fault,
                      acquireLock(locks, lockKeyOf(body), LockTtlMs, now))

\* the record of a cancelled reservation is treated as no record
afterLookup_activeOnly(key, body, fault, existing) ==
    IF existing.ret # NoBooking /\ bookingOf(bookings, existing.ret).status # "CANCELLED"
    THEN Reply(200, "", existing.ret, FALSE, bookings, locks, existing.idempotency, nextId)
    ELSE IF ~validBody(body)
    THEN Reply(400, "invalid_input", NoBooking, FALSE, bookings, locks,
               existing.idempotency, nextId)
    ELSE afterAcquire(key, body, existing.idempotency, fault,
                      acquireLock(locks, lockKeyOf(body), LockTtlMs, now))

\* lines 98-155: existing is what the idempotency lookup returned
afterLookup(key, body, fault, existing) ==
    IF existing.ret # NoBooking
    THEN Reply(200, "", existing.ret, FALSE, bookings, locks, existing.idempotency, nextId)
    ELSE IF ~validBody(body)
    THEN Reply(400, "invalid_input", NoBooking, FALSE, bookings, locks,
               existing.idempotency, nextId)
    ELSE afterAcquire(key, body, existing.idempotency, fault,
                      acquireLock(locks, lockKeyOf(body), LockTtlMs, now))

\* the whole handler
bookingsReply(key, body, fault) ==
    afterLookup(key, body, fault,
                IF key # NoKey THEN getIdempotency(idempotency, key, now)
                ELSE [ret |-> NoBooking, idempotency |-> idempotency])

-----------------------------------------------------------------------------
(* GET /woki/discover: src/unnamed/part_003, discover.  An optional number *)
(* of the query is a sequence of length 0 or 1.                             *)

Query(restaurantId, sectorId, partySize, date, w, limit) ==
    [restaurantId |-> restaurantId, sectorId |-> sectorId, partySize |-> partySize,
     date |-> date, windowStart |-> w.windowStart, windowEnd |-> w.windowEnd,
     limit |-> limit]

\* DiscoverQuerySchema.safeParse(request.query).success, for the fields the model varies
validQuery(query) == query.partySize > 0

\* what discover answers; an error reply carries no duration and no candidate
DiscoverReply(status, error, durationMinutes, candidates) ==
    [status |-> status, error |-> error, slotMinutes |-> SlotMinutes,
     durationMinutes |-> durationMinutes, candidates |-> candidates]

\* query.data.limit || 10
limitOf(query) ==
    IF query.limit = <<>> THEN 10
    ELSE IF query.limit[1] = 0 THEN 10 ELSE query.limit[1]

\* candidates.slice(0, n) for n >= 0
slice(candidates, n) ==
    SubSeq(candidates, 1, IF n < Len(candidates) THEN n ELSE Len(candidates))

\* lines 59-67
discoverAnswer(query, duration, candidates) ==
    IF Len(candidates) = 0 THEN DiscoverReply(409, "no_capacity", 0, <<>>)
    ELSE DiscoverReply(200, "", duration, slice(candidates, limitOf(query)))

\* lines 46-67, with the restaurant found
discoverIn(query, duration, restaurant) ==
    IF getSector(query.sectorId) = <<>> THEN DiscoverReply(404, "not_found", 0, <<>>)
    ELSE discoverAnswer(query, duration,
             findCandidates(getTables(query.sectorId), getAllBookings(bookings),
                            query.date, query.partySize, duration,
                            searchWindowsFor(query, restaurant)))

\* lines 43-67
discoverAt(query, duration, restaurant) ==
    IF restaurant = <<>> THEN DiscoverReply(404, "not_found", 0, <<>>)
    ELSE discoverIn(query, duration, restaurant[1])

discoverReply(query) ==
    IF ~validQuery(query) THEN DiscoverReply(400, "invalid_input", 0, <<>>)
    ELSE discoverAt(query, getDurationForPartySize(query.partySize),
                    getRestaurant(query.restaurantId))

-----------------------------------------------------------------------------
(* Actions *)

\* the last call and what it answered: op is the call, key and body the
\* idempotency key and the body of a booking request, lk the lock key named,
\* acquired whether the call took the lease
Event(op, key, body, status, error, id, acquired, lk) ==
    [op |-> op, key |-> key, body |-> body, status |-> status, error |-> error,
     id |-> id, acquired |-> acquired, lk |-> lk]

NoBody == <<>>

NoEvent == Event("none", NoKey, NoBody, 0, "", NoBooking, FALSE, <<>>)

Init ==
    /\ now = StartNow
    /\ tz \in TimeZones
    /\ bookings = SeedBookings
    /\ locks = <<>>
    /\ idempotency = <<>>
    /\ nextId = FirstId + Len(SeedBookings)
    /\ ticks = 0
    /\ ev = NoEvent
    /\ fin = <<>>
    /\ fout = <<>>

\* the reply rep is sent and the store is left as the handler left it
Respond(rep, key, body) ==
    /\ rep.status = 201 => Len(bookings) < Len(SeedBookings) + MaxBookings
    /\ bookings' = rep.bookings
    /\ locks' = rep.locks
    /\ idempotency' = rep.idempotency
    /\ nextId' = rep.nextId
    /\ ev' = Event("bookings", key, body, rep.status, rep.error, rep.id, rep.acquired,
                   IF validBody(body) THEN lockKeyOf(body) ELSE <<>>)
    /\ UNCHANGED <<now, tz, ticks, fin, fout>>

\* the handler of a POST /woki/bookings request runs.  It holds no await, so it
\* runs to completion before any other handler or timer callback runs; a
\* request in flight leaves no trace in the store before its handler runs.
PostBookings(key, body, fault) == Respond(bookingsReply(key, body, fault), key, body)

numCancelled == Cardinality({i \in 1..Len(bookings) : bookings[i].status = "CANCELLED"})

\* the store after cancelBooking returned c, and the reply
Cancelled(c, id) ==
    /\ c.bookings # bookings => numCancelled < MaxCancels
    /\ bookings' = c.bookings
    /\ ev' = Event("bookingDelete", NoKey, NoBody, IF c.ok THEN 204 ELSE 404,
                   IF c.ok THEN "" ELSE "not_found", id, FALSE, <<>>)
    /\ UNCHANGED <<now, tz, locks, idempotency, nextId, ticks, fin, fout>>

\* DELETE /woki/bookings/:id
bookingDelete(id) == Cancelled(cancelBooking(bookings, id, now), id)

\* the store after acquireLock returned lease
Leased(lease, key) ==
    /\ locks' = lease.locks
    /\ ev' = Event("acquireLock", NoKey, NoBody, 0, "", NoBooking, lease.ok, key)
    /\ UNCHANGED <<now, tz, bookings, idempotency, nextId, ticks, fin, fout>>

\* another caller of the store takes a lease: store.acquireLock(key, ttlMs)
acquireLockCall(key, ttlMs) == Leased(acquireLock(locks, key, ttlMs, now), key)

\* another caller of the store gives a lease back: store.releaseLock(key)
releaseLockCall(key) ==
    /\ locks' = releaseLock(locks, key)
    /\ ev' = Event("releaseLock", NoKey, NoBody, 0, "", NoBooking, FALSE, key)
    /\ UNCHANGED <<now, tz, bookings, idempotency, nextId, ticks, fin, fout>>

\* the periodic sweep the constructor installs
Sweep ==
    /\ idempotency' = sweepIdempotency(idempotency, now)
    /\ ev' = NoEvent
    /\ UNCHANGED <<now, tz, bookings, locks, nextId, ticks, fin, fout>>

\* the clock advances
Tick(step) ==
    /\ ticks < MaxTicks
    /\ now' = now + step
    /\ ticks' = ticks + 1
    /\ ev' = NoEvent
    /\ UNCHANGED <<tz, bookings, locks, idempotency, nextId, fin, fout>>

\* The server as index.ts wires it: the handlers, the sweep and the clock
Next ==
    \/ \E key \in IdempotencyKeys, body \in Bodies : PostBookings(key, body, FALSE)
    \/ \E id \in CancelIds : bookingDelete(id)
    \/ Sweep
    \/ Tick(IdempotencyTtlMs)

Spec == Init /\ [][Next]_vars

\* The server and another caller of the store's lease methods
LeaseBodies ==
    {Body("R1", "S1", 2, 0, W(20, 0, 21, 30)),
     Body("R1", "S1", 2, 1, W(20, 0, 21, 30)),
     Body("RX", "S1", 2, 0, W(20, 0, 21, 30)),
     Body("R1", "S1", 0, 0, NoWindow)}

NextLease ==
    \/ \E key \in IdempotencyKeys, body \in LeaseBodies, fault \in BOOLEAN :
           PostBookings(key, body, fault)
    \/ \E key \in HolderKeys : acquireLockCall(key, LockTtlMs)
    \/ \E key \in HolderKeys : releaseLockCall(key)
    \/ \E step \in TickSteps : Tick(step)

SpecLease == Init /\ [][NextLease]_vars

\* The idempotency map under calls of its two methods, the sweep and the
\* clock, next to the map the same calls leave when no sweep ever runs (kept
\* in fin); fout holds what getIdempotency returned on each of the two.
StoreKeys == {"K1", "K2"}

StoreBookings == {FirstId, FirstId + 1}

MaxStoreTicks == 2

\* store.setIdempotency(key, booking)
setIdempotencyCall(key, booking) ==
    /\ idempotency' = setIdempotency(idempotency, key, booking, IdempotencyTtlMs, now)
    /\ fin' = setIdempotency(fin, key, booking, IdempotencyTtlMs, now)
    /\ fout' = <<>>
    /\ ev' = Event("setIdempotency", key, NoBody, 0, "", booking, FALSE, <<>>)
    /\ UNCHANGED <<now, tz, bookings, locks, nextId, ticks>>

\* store.getIdempotency(key)
getIdempotencyCall(key) ==
    /\ idempotency' = getIdempotency(idempotency, key, now).idempotency
    /\ fin' = getIdempotency(fin, key, now).idempotency
    /\ fout' = <<getIdempotency(idempotency, key, now).ret, getIdempotency(fin, key, now).ret>>
    /\ ev' = Event("getIdempotency", key, NoBody, 0, "", NoBooking, FALSE, <<>>)
    /\ UNCHANGED <<now, tz, bookings, locks, nextId, ticks>>

\* the clock advances
elapse(step) ==
    /\ ticks < MaxStoreTicks
    /\ now' = now + step
    /\ ticks' = ticks + 1
    /\ ev' = NoEvent
    /\ UNCHANGED <<tz, bookings, locks, idempotency, nextId, fin, fout>>

NextStore ==
    \/ \E key \in StoreKeys, booking \in StoreBookings : setIdempotencyCall(key, booking)
    \/ \E key \in StoreKeys : getIdempotencyCall(key)
    \/ Sweep
    \/ \E step \in TickSteps : elapse(step)

SpecStore == Init /\ [][NextStore]_vars

\* The server with guarded sections that take time: the clock passes the
\* expiry of a request's lease before the request gives the lease back.
SectionTimes == {LockTtlMs, LockTtlMs + 1}

\* the reply rep of a request that acquired its lease is sent elapsed
\* milliseconds after the acquisition
RespondLate(rep, key, body, elapsed) ==
    /\ rep.acquired
    /\ ticks < MaxTicks
    /\ rep.status = 201 => Len(bookings) < Len(SeedBookings) + MaxBookings
    /\ bookings' = rep.bookings
    /\ locks' = rep.locks
    /\ idempotency' = rep.idempotency
    /\ nextId' = rep.nextId
    /\ ev' = Event("bookings", key, body, rep.status, rep.error, rep.id, rep.acquired,
                   lockKeyOf(body))
    /\ now' = now + elapsed
    /\ ticks' = ticks + 1
    /\ UNCHANGED <<tz, fin, fout>>

\* the handler of a POST /woki/bookings request runs and its guarded section
\* lasts elapsed milliseconds; no other handler runs meanwhile
slowBookings(key, body, elapsed) ==
    RespondLate(bookingsReply(key, body, FALSE), key, body, elapsed)

NextSections ==
    \/ NextLease
    \/ \E key \in IdempotencyKeys, body \in LeaseBodies, elapsed \in SectionTimes :
           slowBookings(key, body, elapsed)

SpecSections == Init /\ [][NextSections]_vars

\* The server and a holder that takes the lease of a key at the start and
\* never gives it back, while the clock advances and a request on that key
\* is retried.  The retried request asks for a window shorter than its
\* duration, so it commits nothing however often it runs.
RetryBody == Body("R1", "S1", 2, 0, W(10, 0, 11, 0))

\* the other requests sent meanwhile
RecoveryBodies ==
    {Body("R1", "S1", 2, 0, W(20, 0, 21, 30)),
     Body("RX", "S1", 2, 0, W(20, 0, 21, 30))}

RecoverySteps == {LockTtlMs \div 2, LockTtlMs}

\* another caller of the store takes a lease at the start and crashes
crashedHolder(key) == now = StartNow /\ acquireLockCall(key, LockTtlMs)

\* the request is sent again
retry == PostBookings(NoKey, RetryBody, FALSE)

\* the clock advances, up to two lease terms past the start
advance(step) ==
    /\ now < StartNow + 2 * LockTtlMs
    /\ now' = now + step
    /\ ev' = NoEvent
    /\ UNCHANGED <<tz, bookings, locks, idempotency, nextId, ticks, fin, fout>>

NextRecovery ==
    \/ \E key \in HolderKeys : crashedHolder(key)
    \/ retry
    \/ \E body \in RecoveryBodies : PostBookings(NoKey, body, FALSE)
    \/ \E step \in RecoverySteps : advance(step)

\* the last call the server answered was the retried request
retried == ev.op = "bookings" /\ ev.body = RetryBody

\* the clock keeps advancing and the request is retried again and again
SpecRecovery ==
    /\ Init /\ [][NextRecovery]_vars
    /\ WF_vars(\E step \in RecoverySteps : advance(step))
    /\ []<>retried

\* The server answering discovery and booking requests for parties of every
\* step of the duration policy.  fin holds the last discovery query and fout
\* the reply to it.
PolicyBodies ==
    {Body("R1", "S1", 2, 0, W(20, 0, 21, 30)),
     Body("R1", "S1", 3, 0, NoWindow),
     Body("R1", "S1", 5, 0, NoWindow),
     Body("R1", "S2", 8, 0, NoWindow),
     Body("R1", "S2", 9, 1, NoWindow)}

Queries ==
    {Query("R1", "S1", 2, 0, W(20, 0, 21, 30), <<>>),
     Query("R1", "S1", 4, 0, NoWindow, <<2>>),
     Query("R1", "S1", 2, 0, W(20, 0, 23, 45), <<2>>),
     Query("R1", "S1", 5, 0, NoWindow, <<>>),
     Query("R1", "S1", 9, 0, NoWindow, <<>>),
     Query("R1", "S2", 9, 0, NoWindow, <<>>),
     Query("RX", "S1", 2, 0, NoWindow, <<>>),
     Query("R1", "S1", 0, 0, NoWindow, <<>>)}

\* the reply rep is sent; discover writes nothing to the store
Discovered(rep, query) ==
    /\ fin' = query
    /\ fout' = <<rep>>
    /\ ev' = Event("discover", NoKey, NoBody, rep.status, rep.error, NoBooking, FALSE, <<>>)
    /\ UNCHANGED <<now, tz, bookings, locks, idempotency, nextId, ticks>>

\* the handler of a GET /woki/discover request runs
discover(query) == Discovered(discoverReply(query), query)

NextPolicy ==
    \/ \E body \in PolicyBodies : PostBookings(NoKey, body, FALSE)
    \/ \E query \in Queries : discover(query)

SpecPolicy == Init /\ [][NextPolicy]_vars

\* The server answering requests that differ in their window: inside and
\* outside the service windows, starting where a reservation ends, inverted,
\* empty, absent.
WindowBodies ==
    {Body("R1", "S1", 2, 0, W(20, 0, 21, 30)),
     Body("R1", "S1", 2, 0, W(21, 15, 22, 30)),
     Body("R1", "S1", 2, 0, W(8, 0, 11, 0)),
     Body("R1", "S1", 2, 0, W(10, 0, 11, 0)),
     Body("R1", "S1", 2, 0, W(22, 0, 20, 0)),
     Body("R1", "S1", 2, 0, W(21, 0, 21, 0)),
     Body("R1", "S1", 4, 0, NoWindow)}

WindowQueries ==
    {Query("R1", "S1", 2, 0, W(21, 15, 22, 30), <<>>),
     Query("R1", "S1", 2, 0, W(8, 0, 11, 0), <<>>),
     Query("R1", "S1", 2, 0, W(22, 0, 20, 0), <<>>),
     Query("R1", "S1", 2, 0, W(21, 0, 21, 0), <<>>),
     Query("R1", "S1", 4, 0, NoWindow, <<>>)}

NextWindows ==
    \/ \E body \in WindowBodies : PostBookings(NoKey, body, FALSE)
    \/ \E query \in WindowQueries : discover(query)

SpecWindows == Init /\ [][NextWindows]_vars

\* The server answering requests that differ in their scope: the restaurant
\* and the sector of the store, an unknown restaurant, a sector no table
\* names, and a sector that tables name but the store does not hold.
ScopeBodies ==
    {Body("R1", "S1", 2, 0, W(20, 0, 21, 30)),
     Body("R1", "S1", 4, 0, NoWindow),
     Body("RX", "S1", 2, 0, W(20, 0, 21, 30)),
     Body("R1", "SX", 2, 0, W(20, 0, 21, 30)),
     Body("R1", "S2", 8, 0, W(20, 0, 23, 0))}

ScopeQueries ==
    {Query("R1", "S1", 2, 0, W(20, 0, 21, 30), <<>>),
     Query("R1", "S1", 4, 0, NoWindow, <<>>),
     Query("RX", "S1", 2, 0, W(20, 0, 21, 30), <<>>),
     Query("R1", "SX", 2, 0, W(20, 0, 21, 30), <<>>),
     Query("R1", "S2", 8, 0, W(20, 0, 23, 0), <<>>)}

NextScope ==
    \/ \E body \in ScopeBodies : PostBookings(NoKey, body, FALSE)
    \/ \E query \in ScopeQueries : discover(query)

SpecScope == Init /\ [][NextScope]_vars

-----------------------------------------------------------------------------
(* The gap engine alone: findGaps applied to a list of reservations and a   *)
(* list of search windows drawn at the start.                               *)

\* a reservation record of which findGaps reads tableIds, status, start and end:
\* h1:m1 to h2:m2 of day 0, written with the offset -03:00
GapBooking(id, tableId, status, h1, m1, h2, m2) ==
    [id |-> id, restaurantId |-> "R1", sectorId |-> "S1", tableIds |-> <<tableId>>,
     partySize |-> 2, durationMinutes |-> (h2 * 60 + m2) - (h1 * 60 + m1),
     start |-> [d |-> 0, m |-> h1 * 60 + m1, off |-> 180],
     end |-> [d |-> 0, m |-> h2 * 60 + m2, off |-> 180],
     status |-> status, updatedAt |-> 0]

\* reservations of T1 that overlap, nest and touch, one of another table and
\* a cancelled one
GapBookingPool ==
    {GapBooking(1, "T1", "CONFIRMED", 12, 0, 13, 0),
     GapBooking(2, "T1", "CONFIRMED", 12, 30, 14, 30),
     GapBooking(3, "T1", "CONFIRMED", 12, 15, 12, 45),
     GapBooking(4, "T1", "CONFIRMED", 13, 0, 14, 0),
     GapBooking(5, "T1", "CONFIRMED", 21, 0, 22, 0),
     GapBooking(6, "T1", "CANCELLED", 14, 0, 16, 0),
     GapBooking(7, "T2", "CONFIRMED", 12, 0, 16, 0)}

\* the lists of at most n reservations of the pool, in every order
RECURSIVE GapBookingLists(_)
GapBookingLists(n) ==
    IF n = 0 THEN {<<>>}
    ELSE GapBookingLists(n - 1) \cup
         {Append(l, b) : l \in {x \in GapBookingLists(n - 1) : Len(x) = n - 1},
                         b \in GapBookingPool}

\* lists of disjoint windows: none, one, two in ascending and in descending
\* order, two that touch
GapWindowLists ==
    {<<>>,
     <<[start |-> <<12, 0>>, end |-> <<16, 0>>]>>,
     <<[start |-> <<12, 0>>, end |-> <<16, 0>>], [start |-> <<20, 0>>, end |-> <<23, 45>>]>>,
     <<[start |-> <<20, 0>>, end |-> <<23, 45>>], [start |-> <<12, 0>>, end |-> <<16, 0>>]>>,
     <<[start |-> <<11, 0>>, end |-> <<12, 30>>], [start |-> <<12, 30>>, end |-> <<15, 0>>]>>}

GapDurations == {60, 90}

InitGaps ==
    /\ now = StartNow
    /\ tz \in TimeZones
    /\ bookings = SeedBookings
    /\ locks = <<>>
    /\ idempotency = <<>>
    /\ nextId = FirstId + Len(SeedBookings)
    /\ ticks = 0
    /\ ev = NoEvent
    /\ fin \in [bookings : GapBookingLists(MaxGapBookings), windows : GapWindowLists,
                 duration : GapDurations]
    /\ fout = <<>>

\* findGaps('T1', bookings, date, duration, windows) is called once; fout holds
\* the array it returned
findGapsCall ==
    /\ fout = <<>>
    /\ fout' = <<findGaps("T1", fin.bookings, 0, fin.duration, fin.windows)>>
    /\ UNCHANGED <<now, tz, bookings, locks, idempotency, nextId, ticks, ev, fin>>

NextGaps == findGapsCall

SpecGaps == InitGaps /\ [][NextGaps]_vars

-----------------------------------------------------------------------------
(* The candidate generator alone: findCandidates applied to the tables of   *)
(* the catalogue, a list of reservations, a party size, a duration and a    *)
(* list of search windows drawn at the start.                               *)

\* a reservation record of the tables tableIds: h1:m1 to h2:m2 of day 0,
\* written with the offset -03:00
PlanBooking(id, tableIds, status, h1, m1, h2, m2) ==
    [id |-> id, restaurantId |-> "R1", sectorId |-> "S1", tableIds |-> tableIds,
     partySize |-> 2, durationMinutes |-> (h2 * 60 + m2) - (h1 * 60 + m1),
     start |-> [d |-> 0, m |-> h1 * 60 + m1, off |-> 180],
     end |-> [d |-> 0, m |-> h2 * 60 + m2, off |-> 180],
     status |-> status, updatedAt |-> 0]

\* reservations of single tables and of a combo, and a cancelled one
PlanBookingPool ==
    {PlanBooking(1, <<"T1">>, "CONFIRMED", 12, 0, 13, 0),
     PlanBooking(2, <<"T2">>, "CONFIRMED", 12, 30, 14, 30),
     PlanBooking(3, <<"T2", "T1">>, "CONFIRMED", 13, 0, 14, 0),
     PlanBooking(4, <<"T4">>, "CONFIRMED", 12, 45, 15, 0),
     PlanBooking(5, <<"T1">>, "CANCELLED", 12, 0, 16, 0),
     PlanBooking(6, <<"T3">>, "CONFIRMED", 21, 0, 22, 0),
     PlanBooking(7, <<"T3">>, "CONFIRMED", 13, 30, 16, 0)}

\* the lists of at most n reservations of the pool, in every order
RECURSIVE PlanBookingLists(_)
PlanBookingLists(n) ==
    IF n = 0 THEN {<<>>}
    ELSE PlanBookingLists(n - 1) \cup
         {Append(l, b) : l \in {x \in PlanBookingLists(n - 1) : Len(x) = n - 1},
                         b \in PlanBookingPool}

PlanWindowLists ==
    {<<[start |-> <<12, 0>>, end |-> <<14, 0>>]>>,
     <<[start |-> <<12, 0>>, end |-> <<16, 0>>], [start |-> <<20, 0>>, end |-> <<23, 45>>]>>,
     <<[start |-> <<11, 0>>, end |-> <<12, 30>>], [start |-> <<12, 30>>, end |-> <<15, 0>>]>>}

PlanPartySizes == {2, 4, 6, 9, 17}

PlanDurations == {60, 100}

InitPlan ==
    /\ now = StartNow
    /\ tz \in TimeZones
    /\ bookings = SeedBookings
    /\ locks = <<>>
    /\ idempotency = <<>>
    /\ nextId = FirstId + Len(SeedBookings)
    /\ ticks = 0
    /\ ev = NoEvent
    /\ fin \in [tables : {Tables}, bookings : PlanBookingLists(MaxPlanBookings),
                 partySize : PlanPartySizes, duration : PlanDurations,
                 windows : PlanWindowLists]
    /\ fout = <<>>

\* findCandidates(tables, bookings, date, partySize, duration, windows) is
\* called once; fout holds the array it returned
findCandidatesCall ==
    /\ fout = <<>>
    /\ fout' = <<findCandidates(fin.tables, fin.bookings, 0, fin.partySize, fin.duration,
                                fin.windows)>>
    /\ UNCHANGED <<now, tz, bookings, locks, idempotency, nextId, ticks, ev, fin>>

NextCandidates == findCandidatesCall

SpecCandidates == InitPlan /\ [][NextCandidates]_vars

\* the combo phase of findCandidates for one subset of the tables: the gaps
\* of the members and their intersection; fout holds the ids of the members
\* and the array intersectGaps returned
commonGapsCall(combo) ==
    /\ fout = <<>>
    /\ Len(combo) >= 2
    /\ fout' = <<[combo |-> [i \in 1..Len(combo) |-> combo[i].id],
                  common |-> intersectGaps(
                      [i \in 1..Len(combo) |->
                          findGaps(combo[i].id, fin.bookings, 0, fin.duration, fin.windows)],
                      fin.duration)]>>
    /\ UNCHANGED <<now, tz, bookings, locks, idempotency, nextId, ticks, ev, fin>>

NextCombo ==
    \E k \in 1..Len(getAllCombinations(Tables)) :
        commonGapsCall(getAllCombinations(Tables)[k])

SpecCombo == InitPlan /\ [][NextCombo]_vars

-----------------------------------------------------------------------------
(* intersectGaps alone, applied to gap lists drawn at the start.  The        *)
(* instants are minutes from an origin.                                     *)

\* gap lists: one gap, two apart, none, two that overlap, a short one, two
\* that touch
GapListPool ==
    {<<TimeSlot(0, 120)>>,
     <<TimeSlot(60, 180)>>,
     <<TimeSlot(0, 60), TimeSlot(90, 180)>>,
     <<>>,
     <<TimeSlot(30, 90), TimeSlot(60, 150)>>,
     <<TimeSlot(100, 130)>>,
     <<TimeSlot(0, 60), TimeSlot(60, 120)>>}

\* the arrays of at most n gap lists of the pool
RECURSIVE GapListArrays(_)
GapListArrays(n) ==
    IF n = 0 THEN {<<>>}
    ELSE GapListArrays(n - 1) \cup
         {Append(l, g) : l \in {x \in GapListArrays(n - 1) : Len(x) = n - 1},
                         g \in GapListPool}

IntersectDurations == {30, 60}

InitIntersect ==
    /\ now = StartNow
    /\ tz \in TimeZones
    /\ bookings = SeedBookings
    /\ locks = <<>>
    /\ idempotency = <<>>
    /\ nextId = FirstId + Len(SeedBookings)
    /\ ticks = 0
    /\ ev = NoEvent
    /\ fin \in [gaps : GapListArrays(MaxGapLists), duration : IntersectDurations]
    /\ fout = <<>>

\* intersectGaps(gaps, duration) is called once; fout holds the array it returned
intersectGapsCall ==
    /\ fout = <<>>
    /\ fout' = <<intersectGaps(fin.gaps, fin.duration)>>
    /\ UNCHANGED <<now, tz, bookings, locks, idempotency, nextId, ticks, ev, fin>>

NextIntersect == intersectGapsCall

SpecIntersect == InitIntersect /\ [][NextIntersect]_vars

-----------------------------------------------------------------------------
(* Properties *)

\* the reservations a request created: the ids the seed does not use
created(b) == b.id >= FirstId + Len(SeedBookings)

active(b) == b.status # "CANCELLED"

sharesTable(a, b) == \E i \in 1..Len(a.tableIds) : Includes(b.tableIds, a.tableIds[i])

\* the half-open intervals [start, end) of a and b have an instant in common
overlaps(a, b) ==
    /\ parseISO(a.start) < parseISO(b.end)
    /\ parseISO(b.start) < parseISO(a.end)

\* C1: no double booking.  In every state reached from the seeded store by
\* booking-creation and cancellation requests, no two reservations that are
\* not cancelled and share a table have overlapping intervals [start, end).
C1_NoDoubleBooking ==
    \A i, j \in 1..Len(bookings) :
        (i < j /\ active(bookings[i]) /\ active(bookings[j])
           /\ sharesTable(bookings[i], bookings[j]))
        => ~overlaps(bookings[i], bookings[j])

\* two requests were committed on one table after a cancellation, and both
\* reservations are active
C1_Witness ==
    /\ \E i \in 1..Len(bookings) : ~active(bookings[i])
    /\ \E i, j \in 1..Len(bookings) :
          /\ i < j /\ created(bookings[i]) /\ created(bookings[j])
          /\ active(bookings[i]) /\ active(bookings[j])
          /\ sharesTable(bookings[i], bookings[j])

\* the step is the run of a bookings handler that reached acquireLock: the
\* idempotency lookup missed and the body passed validation
reachedLock(e) == e.op = "bookings" /\ e.status \notin {200, 400}

\* the local date of the reservation b is the date of the request body
bookedFor(b, body) ==
    /\ b.restaurantId = body.restaurantId
    /\ b.sectorId = body.sectorId
    /\ (parseISO(b.start) - tz) \div MinutesPerDay = body.date

\* C2 as stated: when two booking requests on one lock key that has no
\* unexpired entry are handled one right after the other, exactly one
\* acquires the lease; the other is answered 409 conflict.
C2_ExactlyOneRequestAcquires ==
    [][(ev.op = "bookings" /\ ev.acquired /\ reachedLock(ev') /\ ev'.lk = ev.lk)
       => (~ev'.acquired /\ ev'.status = 409 /\ ev'.error = "conflict")]_vars

\* C2, amended: of two acquireLock calls on one key that follow one another
\* with no release between them, the first having returned true, the second
\* returns false, and a booking request that made it is answered 409
\* conflict; a booking request gives its lease back before its handler
\* returns, so the acquisition that follows a request that acquired the same
\* key returns true: two racing booking requests both acquire, in turn.
C2_LeaseExclusion ==
    [][/\ (ev.op = "acquireLock" /\ ev.acquired /\ ev'.lk = ev.lk
            /\ (ev'.op = "acquireLock" \/ reachedLock(ev')))
           => /\ ~ev'.acquired
              /\ ev'.op = "bookings" => (ev'.status = 409 /\ ev'.error = "conflict")
       /\ (ev.op = "bookings" /\ ev.acquired /\ ev'.lk = ev.lk
            /\ (ev'.op = "acquireLock" \/ reachedLock(ev')))
           => ev'.acquired]_vars

\* two booking requests of one lock key were handled at one instant and both
\* were committed
C2_Witness ==
    /\ ev.op = "bookings" /\ ev.status = 201 /\ ev.acquired
    /\ \E i \in 1..Len(bookings) :
          /\ created(bookings[i]) /\ bookings[i].id # ev.id
          /\ bookings[i].updatedAt = now
          /\ bookedFor(bookings[i], ev.body)

\* the idempotency map holds a record under key that has not expired
recorded(key) ==
    /\ key # NoKey
    /\ key \in DOMAIN idempotency
    /\ idempotency[key].expiresAt > now

\* body has the restaurant, sector, date and party size of the reservation b
samePayload(b, body) == bookedFor(b, body) /\ b.partySize = body.partySize

\* C3: sequential idempotency.  A booking request that carries the key and
\* the payload of a request committed before it, handled while the record of
\* that commit has not expired, is answered 200 with the id of the committed
\* reservation; it adds no reservation, takes no lease and writes no
\* idempotency record.
C3_SequentialIdempotency ==
    [][(/\ ev'.op = "bookings"
        /\ recorded(ev'.key)
        /\ \E i \in 1..Len(bookings) :
              /\ bookings[i].id = idempotency[ev'.key].booking
              /\ samePayload(bookings[i], ev'.body))
       => /\ ev'.status = 200
          /\ ev'.id = idempotency[ev'.key].booking
          /\ bookings' = bookings /\ nextId' = nextId
          /\ ~ev'.acquired /\ locks' = locks
          /\ idempotency' = idempotency]_vars

\* the second call was answered 200 five seconds after the first was committed
C3_Witness ==
    /\ ev.op = "bookings" /\ ev.status = 200 /\ recorded(ev.key)
    /\ now = StartNow + LockTtlMs
    /\ \E i \in 1..Len(bookings) :
          /\ bookings[i].id = ev.id /\ bookings[i].updatedAt = StartNow
          /\ samePayload(bookings[i], ev.body)

\* C4: single writer per idempotency key.  A request that is committed under
\* a key finds no unexpired record under it and leaves the record of its own
\* reservation; every request that carries a key whose record has not
\* expired, whatever its payload, is answered with the recorded reservation
\* and creates none.
C4_SingleWriterPerKey ==
    [][(ev'.op = "bookings" /\ ev'.key # NoKey)
       => /\ recorded(ev'.key)
              => /\ ev'.id = idempotency[ev'.key].booking
                 /\ ev'.status = 200
                 /\ Len(bookings') = Len(bookings)
          /\ ev'.status = 201
              => /\ ~recorded(ev'.key)
                 /\ ev'.key \in DOMAIN idempotency'
                 /\ idempotency'[ev'.key].booking = ev'.id
                 /\ idempotency'[ev'.key].expiresAt > now]_vars

\* a request with the key of a committed reservation and another payload was
\* answered with that reservation
C4_Witness ==
    /\ ev.op = "bookings" /\ ev.status = 200 /\ recorded(ev.key)
    /\ \E i \in 1..Len(bookings) :
          /\ bookings[i].id = ev.id /\ created(bookings[i])
          /\ ~samePayload(bookings[i], ev.body)

\* the lease map holds an entry for key k that has not expired
held(k) == k \in DOMAIN locks /\ locks[k] > now

\* C5: guaranteed lease release.  After a booking request that acquired the
\* lease of its key was answered, by whichever exit of the guarded section
\* (201, 404, 409 no_capacity, or an exception thrown inside it), the lease
\* map holds no entry for that key.
C5_LeaseReleased ==
    (ev.op = "bookings" /\ ev.acquired)
    => /\ ev.lk \notin DOMAIN locks
       /\ \/ ev.status = 201
          \/ ev.status = 404
          \/ ev.status = 409 /\ ev.error = "no_capacity"
          \/ ev.status = 500

\* a request that acquired the lease met an exception inside the guarded
\* section, while another key's lease is in the map
C5_Witness ==
    /\ ev.op = "bookings" /\ ev.acquired /\ ev.status = 500
    /\ ev.lk \notin DOMAIN locks
    /\ DOMAIN locks # {}

\* C6: acquireLock(key, ttl) at time now returns true and sets the expiry of
\* key to now + ttl if and only if the lease map holds no entry for key with
\* expiry > now; otherwise it returns false and leaves the map as it was.
\* The acquisition a booking request makes returns true in the same cases.
C6_AcquireLock ==
    [][/\ ev'.op = "acquireLock"
           => /\ ev'.acquired <=> ~held(ev'.lk)
              /\ ev'.acquired
                  => (ev'.lk \in DOMAIN locks' /\ locks'[ev'.lk] = now + LockTtlMs)
              /\ ~ev'.acquired => locks' = locks
       /\ reachedLock(ev') => (ev'.acquired <=> ~held(ev'.lk))]_vars

\* an acquisition failed on an unexpired entry, which is still in the map
C6_Witness ==
    /\ ev.op = "acquireLock" /\ ~ev.acquired
    /\ held(ev.lk)

\* C7: key independence.  acquireLock and releaseLock on a key, called by
\* the store's user or by a booking request, leave the entry of every other
\* key as it was, and a booking request whose own key has no unexpired entry
\* acquires its lease whatever the other keys hold: it is answered conflict
\* only when its own key is held.
C7_KeyIndependence ==
    [][(ev'.op = "acquireLock" \/ ev'.op = "releaseLock" \/ reachedLock(ev'))
       => /\ \A k \in (DOMAIN locks \cup DOMAIN locks') \ {ev'.lk} :
                k \in DOMAIN locks /\ k \in DOMAIN locks' /\ locks'[k] = locks[k]
          /\ (ev'.op = "bookings" /\ ~held(ev'.lk))
              => (ev'.acquired /\ ev'.error # "conflict")
          /\ (ev'.op = "bookings" /\ ev'.error = "conflict") => held(ev'.lk)]_vars

\* a booking request was committed while the lease of another key is held
C7_Witness ==
    /\ ev.op = "bookings" /\ ev.status = 201 /\ ev.acquired
    /\ \E k \in DOMAIN locks : k # ev.lk /\ held(k)

\* the idempotency map after the step holds no record under key and, under
\* every other key, what it held before
noRecordStored(key) ==
    /\ key \notin DOMAIN idempotency'
    /\ DOMAIN idempotency' = DOMAIN idempotency \ {key}
    /\ \A k \in DOMAIN idempotency' : idempotency'[k] = idempotency[k]

\* C8: NoCapacity.  A booking request that reaches the allocation (its
\* restaurant exists) and for which findCandidates yields no candidate is
\* answered 409 no_capacity; it adds no reservation, stores no idempotency
\* record and leaves no lease.
C8_NoCapacity ==
    [][(/\ reachedLock(ev') /\ ev'.acquired /\ ev'.status # 500
        /\ getRestaurant(ev'.body.restaurantId) # <<>>
        /\ findCandidates(getTables(ev'.body.sectorId), getAllBookings(bookings),
                          ev'.body.date, ev'.body.partySize,
                          getDurationForPartySize(ev'.body.partySize),
                          searchWindowsFor(ev'.body, Restaurant)) = <<>>)
       => /\ ev'.status = 409 /\ ev'.error = "no_capacity" /\ ev'.id = NoBooking
          /\ bookings' = bookings /\ nextId' = nextId
          /\ noRecordStored(ev'.key)
          /\ ev'.lk \notin DOMAIN locks']_vars

\* a request that carried an idempotency key was answered no_capacity
C8_Witness ==
    /\ ev.op = "bookings" /\ ev.error = "no_capacity" /\ ev.acquired
    /\ ev.key # NoKey /\ ev.key \notin DOMAIN idempotency
    /\ ev.lk \notin DOMAIN locks

\* C9 as stated: a booking request whose acquireLock fails is answered 409
\* conflict and leaves the reservations, the idempotency map and the lease
\* map as they were.
C9_ConflictChangesNothing ==
    [][(ev'.op = "bookings" /\ reachedLock(ev') /\ ~ev'.acquired)
       => /\ ev'.status = 409 /\ ev'.error = "conflict"
          /\ bookings' = bookings /\ nextId' = nextId
          /\ locks' = locks
          /\ idempotency' = idempotency]_vars

\* the idempotency map after the step is the map before it less the record
\* under key, if that record had expired
onlyExpiredEvicted(key) ==
    /\ DOMAIN idempotency' =
          {k \in DOMAIN idempotency : ~(k = key /\ idempotency[k].expiresAt <= now)}
    /\ \A k \in DOMAIN idempotency' : idempotency'[k] = idempotency[k]

\* C9, amended: a booking request whose acquireLock fails is answered 409
\* conflict; it leaves the reservations and the lease map (the holder's
\* entry and its expiry) as they were, and the idempotency map as it was
\* except that an expired record under the request's own idempotency key is
\* evicted by the lookup made before the acquisition.
C9_ConflictEvictsOnlyExpired ==
    [][(ev'.op = "bookings" /\ reachedLock(ev') /\ ~ev'.acquired)
       => /\ ev'.status = 409 /\ ev'.error = "conflict"
          /\ bookings' = bookings /\ nextId' = nextId
          /\ locks' = locks /\ held(ev'.lk)
          /\ onlyExpiredEvicted(ev'.key)]_vars

\* a request whose key was recorded with a commit a day before was answered
\* conflict; the map no longer holds the record
C9_Witness ==
    /\ ev.op = "bookings" /\ ev.error = "conflict" /\ ev.key # NoKey
    /\ held(ev.lk)
    /\ ev.key \notin DOMAIN idempotency
    /\ now = StartNow + IdempotencyTtlMs
    /\ \E i \in 1..Len(bookings) : created(bookings[i]) /\ bookings[i].updatedAt = StartNow

\* the windows findGaps searched for the input fin
searchedWindows == searchWindowsOf(0, fin.windows)

\* the windows of the input are given in ascending order
ascendingWindows ==
    \A i \in 1..(Len(searchedWindows) - 1) :
        searchedWindows[i].end <= searchedWindows[i + 1].start

\* g is pairwise disjoint, sorted by start, each gap at least fin.duration
\* minutes long and inside one of the searched windows
wellFormedGaps(g) ==
    /\ \A i, j \in 1..Len(g) :
          i < j => (g[i].end <= g[j].start \/ g[j].end <= g[i].start)
    /\ \A i \in 1..(Len(g) - 1) : g[i].start <= g[i + 1].start
    /\ \A i \in 1..Len(g) : g[i].end - g[i].start >= fin.duration
    /\ \A i \in 1..Len(g) :
          \E k \in 1..Len(searchedWindows) :
              searchedWindows[k].start <= g[i].start /\ g[i].end <= searchedWindows[k].end

\* C10 as stated: for every list of reservations and every list of disjoint
\* search windows, the gaps findGaps returns are pairwise disjoint, sorted by
\* start, each at least minDuration long and each inside one of the windows.
C10_GapsWellFormed == fout # <<>> => wellFormedGaps(fout[1])

\* C10, amended: the same, for disjoint search windows given in ascending
\* order (findGaps visits the windows in the order given and sorts neither
\* them nor the gaps).
C10_GapsWellFormedAscending ==
    (fout # <<>> /\ ascendingWindows) => wellFormedGaps(fout[1])

\* findGaps returned two gaps or more for two windows in ascending order and
\* two active reservations of the table that overlap
C10_Witness ==
    /\ fout # <<>> /\ Len(fout[1]) >= 2
    /\ Len(fin.windows) = 2 /\ ascendingWindows
    /\ Len(fin.bookings) = 2
    /\ \A i \in 1..2 : active(fin.bookings[i]) /\ Includes(fin.bookings[i].tableIds, "T1")
    /\ overlaps(fin.bookings[1], fin.bookings[2])

\* the reservations of the input that cover table T1: not cancelled, T1 among
\* their tables
covering ==
    {i \in 1..Len(fin.bookings) :
        active(fin.bookings[i]) /\ Includes(fin.bookings[i].tableIds, "T1")}

\* no covering reservation has an instant in [a, b)
freeOn(a, b) ==
    \A i \in covering :
        ~(parseISO(fin.bookings[i].start) < b /\ a < parseISO(fin.bookings[i].end))

\* the instants at which an uncovered run of the window w can begin or end
runBounds(w) ==
    {w.start, w.end}
    \cup {parseISO(fin.bookings[i].start) : i \in covering}
    \cup {parseISO(fin.bookings[i].end) : i \in covering}

\* p lies in an uncovered run of the window w at least fin.duration long
inLongRun(p, w) ==
    \E a, b \in runBounds(w) :
        /\ w.start <= a /\ a <= p /\ p < b /\ b <= w.end
        /\ b - a >= fin.duration
        /\ freeOn(a, b)

\* one instant of every quarter of an hour of w: the bounds of the windows
\* and of the reservations are whole quarters, so a quarter is covered
\* wholly or not at all
quarters(w) == {w.start + 15 * k : k \in 0..((w.end - w.start - 1) \div 15)}

inSomeGap(p, g) == \E i \in 1..Len(g) : g[i].start <= p /\ p < g[i].end

\* C11: findGaps is exact.  An instant of a search window lies in a returned
\* gap if and only if it lies in a run of the window, at least minDuration
\* long, that no non-cancelled reservation of the table covers; cancelled
\* reservations and reservations of other tables shrink no gap.
C11_GapsExact ==
    fout # <<>>
    => \A k \in 1..Len(searchedWindows) :
           \A p \in quarters(searchedWindows[k]) :
               inSomeGap(p, fout[1]) <=> inLongRun(p, searchedWindows[k])

\* a returned gap spans a cancelled reservation or one of another table,
\* while a reservation covers the table
C11_Witness ==
    /\ fout # <<>> /\ Cardinality(covering) >= 1
    /\ \E i \in (1..Len(fin.bookings)) \ covering :
          \E j \in 1..Len(fout[1]) :
              /\ fout[1][j].start <= parseISO(fin.bookings[i].start)
              /\ parseISO(fin.bookings[i].end) <= fout[1][j].end

\* the table of the input that has the id
planTable(id) == CHOOSE i \in 1..Len(fin.tables) : fin.tables[i].id = id

\* the reservation b of the input holds one of the tables of the candidate c
\* during an instant of the candidate's interval
collides(b, c) ==
    /\ active(b)
    /\ \E i \in 1..Len(c.tableIds) : Includes(b.tableIds, c.tableIds[i])
    /\ parseISO(b.start) < parseISO(c.end)
    /\ parseISO(c.start) < parseISO(b.end)

\* C12: every candidate findCandidates returns is bookable: its interval is
\* exactly the requested duration long, lies inside one search window and
\* overlaps no non-cancelled reservation of any of its tables.
C12_CandidatesBookable ==
    fout # <<>>
    => \A i \in 1..Len(fout[1]) :
           LET c == fout[1][i] IN
           /\ parseISO(c.end) - parseISO(c.start) = fin.duration
           /\ \E k \in 1..Len(searchedWindows) :
                 /\ searchedWindows[k].start <= parseISO(c.start)
                 /\ parseISO(c.end) <= searchedWindows[k].end
           /\ \A j \in 1..Len(fin.bookings) : ~collides(fin.bookings[j], c)

\* a combo candidate was returned while a reservation holds one of its
\* tables at another time of the window
C12_Witness ==
    /\ fout # <<>>
    /\ \E i \in 1..Len(fout[1]) :
          /\ fout[1][i].kind = "combo"
          /\ \E j \in 1..Len(fin.bookings) :
                /\ active(fin.bookings[j])
                /\ \E t \in 1..Len(fout[1][i].tableIds) :
                      Includes(fin.bookings[j].tableIds, fout[1][i].tableIds[t])
                /\ \E k \in 1..Len(searchedWindows) :
                      /\ searchedWindows[k].start <= parseISO(fin.bookings[j].start)
                      /\ parseISO(fin.bookings[j].end) <= searchedWindows[k].end
                      /\ searchedWindows[k].start <= parseISO(fout[1][i].start)
                      /\ parseISO(fout[1][i].end) <= searchedWindows[k].end

\* the permutations of 1..n
Orders(n) == {f \in [1..n -> 1..n] : \A i, j \in 1..n : i # j => f[i] # f[j]}

\* the elements of the sequence s
Elements(s) == {s[i] : i \in 1..Len(s)}

\* C13: intersectGaps is commutative and associative over its input lists:
\* for every permutation of the gap lists the set of intervals returned is
\* the one returned for the lists in the order given.
C13_IntersectCommutes ==
    fout # <<>>
    => \A f \in Orders(Len(fin.gaps)) :
           Elements(intersectGaps([i \in 1..Len(fin.gaps) |-> fin.gaps[f[i]]], fin.duration))
           = Elements(fout[1])

\* three different gap lists have a common interval
C13_Witness ==
    /\ fout # <<>> /\ fout[1] # <<>>
    /\ Len(fin.gaps) = 3
    /\ fin.gaps[1] # fin.gaps[2] /\ fin.gaps[2] # fin.gaps[3] /\ fin.gaps[1] # fin.gaps[3]

-----------------------------------------------------------------------------
(* discretizeGaps alone (src/src/domain/gaps.ts:161-181): the gaps, the
   duration and the labels of the candidates are drawn in Init, the function
   is called once. *)

\* gaps in minutes: a multiple of the slot long, exactly one duration long,
\* off the quarter-hour grid, short, across midnight
SlideGapPool ==
    {TimeSlot(720, 810), TimeSlot(720, 780), TimeSlot(725, 805),
     TimeSlot(900, 940), TimeSlot(600, 700), TimeSlot(1380, 1500)}

SlideGapLists ==
    {<<>>} \cup {<<g>> : g \in SlideGapPool}
    \cup {<<g, h>> : g \in SlideGapPool, h \in SlideGapPool}

SlideDurations == {45, 60, 100}

SlideLabels ==
    {[tableIds |-> <<"T1">>, kind |-> "single", waste |-> 0],
     [tableIds |-> <<"T1", "T2">>, kind |-> "combo", waste |-> 2]}

InitDiscretize ==
    /\ now = StartNow
    /\ tz \in TimeZones
    /\ bookings = SeedBookings
    /\ locks = <<>>
    /\ idempotency = <<>>
    /\ nextId = FirstId + Len(SeedBookings)
    /\ ticks = 0
    /\ ev = NoEvent
    /\ fin \in [gaps : SlideGapLists, duration : SlideDurations, label : SlideLabels]
    /\ fout = <<>>

\* discretizeGaps(gaps, durationMinutes, tableIds, kind, waste) is called
\* once; fout holds the array it returned
discretizeGapsCall ==
    /\ fout = <<>>
    /\ fout' = <<discretizeGaps(fin.gaps, fin.duration, fin.label.tableIds,
                                fin.label.kind, fin.label.waste)>>
    /\ UNCHANGED <<now, tz, bookings, locks, idempotency, nextId, ticks, ev, fin>>

NextDiscretize == discretizeGapsCall

SpecDiscretize == InitDiscretize /\ [][NextDiscretize]_vars

-----------------------------------------------------------------------------
(* selectBestCandidate alone (src/src/domain/wokibrain.ts:122-131): the list
   of candidates is drawn in Init, the function is called once. *)

MaxCandidates == 3

\* a candidate as discretizeGaps writes it: start and end in UTC
Candidate(kind, tableIds, start, end, waste) ==
    [kind |-> kind, tableIds |-> tableIds, start |-> toISOString(start),
     end |-> toISOString(end), waste |-> waste]

\* a single with waste, singles without waste that differ in the table, in
\* the start or only in the end, and combos without waste that start first
CandidatePool ==
    {Candidate("single", <<"T2">>, 750, 840, 2),
     Candidate("single", <<"T1">>, 780, 870, 0),
     Candidate("single", <<"T1">>, 780, 880, 0),
     Candidate("single", <<"T3">>, 780, 870, 0),
     Candidate("single", <<"T1">>, 735, 825, 0),
     Candidate("combo", <<"T1", "T2">>, 720, 810, 0),
     Candidate("combo", <<"T1", "T3">>, 720, 810, 0)}

\* the lists of at most n candidates of the pool
RECURSIVE CandidateLists(_)
CandidateLists(n) ==
    IF n = 0 THEN {<<>>}
    ELSE CandidateLists(n - 1) \cup
         {Append(l, c) : l \in {x \in CandidateLists(n - 1) : Len(x) = n - 1},
                         c \in CandidatePool}

InitSelect ==
    /\ now = StartNow
    /\ tz \in TimeZones
    /\ bookings = SeedBookings
    /\ locks = <<>>
    /\ idempotency = <<>>
    /\ nextId = FirstId + Len(SeedBookings)
    /\ ticks = 0
    /\ ev = NoEvent
    /\ fin \in [candidates : CandidateLists(MaxCandidates)]
    /\ fout = <<>>

\* selectBestCandidate(candidates) is called once; fout holds what it
\* returned (<<>> for null)
selectBestCandidateCall ==
    /\ fout = <<>>
    /\ fout' = <<selectBestCandidate(fin.candidates)>>
    /\ UNCHANGED <<now, tz, bookings, locks, idempotency, nextId, ticks, ev, fin>>

NextSelect == selectBestCandidateCall

SpecSelect == InitSelect /\ [][NextSelect]_vars

\* no active reservation of the input holds one of the tables ids during an
\* instant of [a, b)
comboFreeOn(ids, a, b) ==
    \A j \in 1..Len(fin.bookings) :
        ~(/\ active(fin.bookings[j])
          /\ \E i \in 1..Len(ids) : Includes(fin.bookings[j].tableIds, ids[i])
          /\ parseISO(fin.bookings[j].start) < b
          /\ a < parseISO(fin.bookings[j].end))

\* the instants at which a run of the window w free of reservations can
\* begin or end
planBounds(w) ==
    {w.start, w.end}
    \cup {parseISO(fin.bookings[j].start) : j \in 1..Len(fin.bookings)}
    \cup {parseISO(fin.bookings[j].end) : j \in 1..Len(fin.bookings)}

\* p lies in a run of the window w, at least fin.duration long, during which
\* all the tables ids are free
inCommonRun(ids, p, w) ==
    \E a, b \in planBounds(w) :
        /\ w.start <= a /\ a <= p /\ p < b /\ b <= w.end
        /\ b - a >= fin.duration
        /\ comboFreeOn(ids, a, b)

\* C14: intersectGaps is exact for the gap lists findGaps produces with one
\* minimum duration: an instant of a search window lies in a returned
\* interval if and only if it lies in a run of the window, at least
\* minDuration long, during which all the tables of the combination are
\* free; the result is empty if and only if there is no such run; and gaps
\* 20:00-22:00 and 21:00-23:00 with minimum 60 give exactly 21:00-22:00.
C14_IntersectExact ==
    /\ intersectGaps(<< <<TimeSlot(1200, 1320)>>, <<TimeSlot(1260, 1380)>> >>, 60)
         = <<TimeSlot(1260, 1320)>>
    /\ fout # <<>>
        => /\ \A k \in 1..Len(searchedWindows) :
                 \A p \in quarters(searchedWindows[k]) :
                     inSomeGap(p, fout[1].common)
                     <=> inCommonRun(fout[1].combo, p, searchedWindows[k])
           /\ (fout[1].common = <<>>)
              <=> ~\E k \in 1..Len(searchedWindows) :
                     \E p \in quarters(searchedWindows[k]) :
                         inCommonRun(fout[1].combo, p, searchedWindows[k])

\* a combination of two tables, each with a reservation of its own in the
\* window, has a common interval
C14_Witness ==
    /\ fout # <<>> /\ fout[1].common # <<>>
    /\ Len(fin.bookings) = 2
    /\ \A j \in 1..2 :
          /\ active(fin.bookings[j])
          /\ Len(fin.bookings[j].tableIds) = 1
          /\ Includes(fout[1].combo, fin.bookings[j].tableIds[1])
          /\ \E k \in 1..Len(searchedWindows) :
                /\ searchedWindows[k].start <= parseISO(fin.bookings[j].start)
                /\ parseISO(fin.bookings[j].end) <= searchedWindows[k].end
    /\ fin.bookings[1].tableIds # fin.bookings[2].tableIds

\* the numbers k for which a candidate starting 15k minutes into the gap g
\* ends within it
slotsOf(g) ==
    {k \in 0..((g.end - g.start) \div SlotMinutes) :
        g.start + SlotMinutes * k + fin.duration <= g.end}

\* the candidates of the gap g in ascending order of start, as instants
slotsIn(g) ==
    [n \in 1..Cardinality(slotsOf(g)) |->
        [start |-> g.start + SlotMinutes * (n - 1),
         end |-> g.start + SlotMinutes * (n - 1) + fin.duration,
         kind |-> fin.label.kind, tableIds |-> fin.label.tableIds,
         waste |-> fin.label.waste]]

\* the instants the start and the end of the candidates of cs denote
asInstants(cs) ==
    [n \in 1..Len(cs) |->
        [start |-> parseISO(cs[n].start), end |-> parseISO(cs[n].end),
         kind |-> cs[n].kind, tableIds |-> cs[n].tableIds, waste |-> cs[n].waste]]

\* C15: discretizeGaps emits, gap after gap, exactly the candidates that
\* start at gap.start + 15k minutes (k = 0, 1, 2, ...) with
\* start + duration <= gap.end, in ascending order of k: none ends after
\* the end of its gap, a gap shorter than the duration gives none, and
\* consecutive starts within a gap are 15 minutes apart.
C15_DiscretizeExact ==
    fout # <<>>
    => asInstants(fout[1]) = Flatten([i \in 1..Len(fin.gaps) |-> slotsIn(fin.gaps[i])])

\* a gap shorter than the duration followed by a gap that is off the grid,
\* longer than the duration and not a multiple of the slot longer than it
C15_Witness ==
    /\ fout # <<>>
    /\ Len(fin.gaps) = 2
    /\ fin.gaps[1].end - fin.gaps[1].start < fin.duration
    /\ fin.gaps[2].start % SlotMinutes # 0
    /\ (fin.gaps[2].end - fin.gaps[2].start - fin.duration) % SlotMinutes # 0
    /\ Len(fout[1]) >= 2

\* the list cs in the order f
reordered(cs, f) == [i \in 1..Len(cs) |-> cs[f[i]]]

\* every reordering of the list drawn has the choice of the call
sameChoiceInAnyOrder ==
    \A f \in Orders(Len(fin.candidates)) :
        selectBestCandidate(reordered(fin.candidates, f)) = fout[1]

\* candidates of the list that agree on kind, waste, start and table ids
\* agree on end
endsDetermined ==
    \A i, j \in 1..Len(fin.candidates) :
        (/\ fin.candidates[i].kind = fin.candidates[j].kind
         /\ fin.candidates[i].waste = fin.candidates[j].waste
         /\ fin.candidates[i].start = fin.candidates[j].start
         /\ fin.candidates[i].tableIds = fin.candidates[j].tableIds)
        => fin.candidates[i].end = fin.candidates[j].end

\* C16 as stated: for any candidate list and any permutation of it,
\* selectBestCandidate chooses the identical candidate (kind, tables, start,
\* end, waste).
C16_AnyListDeterministic ==
    fout # <<>> => sameChoiceInAnyOrder

\* C16 amended: for any candidate list in which candidates that agree on
\* kind, waste, start and table ids also agree on end, and any permutation
\* of it, selectBestCandidate chooses the identical candidate.
C16_Deterministic ==
    (fout # <<>> /\ endsDetermined) => sameChoiceInAnyOrder

\* three different candidates, two of which differ only in the table
C16_Witness ==
    /\ fout # <<>> /\ endsDetermined
    /\ Len(fin.candidates) = 3
    /\ fin.candidates[1] # fin.candidates[2]
    /\ fin.candidates[2] # fin.candidates[3]
    /\ fin.candidates[1] # fin.candidates[3]
    /\ \E i, j \in 1..3 :
          /\ fin.candidates[i].tableIds # fin.candidates[j].tableIds
          /\ fin.candidates[i].kind = fin.candidates[j].kind
          /\ fin.candidates[i].waste = fin.candidates[j].waste
          /\ fin.candidates[i].start = fin.candidates[j].start
          /\ fout[1] = <<fin.candidates[i]>>

\* a is not after b in the order: single before combo, then less waste,
\* then the earlier start, then the joined table ids
notAfter(a, b) ==
    \/ a.kind = "single" /\ b.kind = "combo"
    \/ /\ a.kind = b.kind
       /\ \/ a.waste < b.waste
          \/ /\ a.waste = b.waste
             /\ \/ parseISO(a.start) < parseISO(b.start)
                \/ /\ parseISO(a.start) = parseISO(b.start)
                   /\ joinCompare(a.tableIds, b.tableIds) <= 0

\* C17: selectBestCandidate returns null for an empty list and otherwise a
\* candidate of the list that is not after any other in the order (single
\* before combo, then waste ascending, then start ascending, then joined
\* table ids); a combo is chosen only when the list has no single.
C17_SelectMinimum ==
    fout # <<>>
    => /\ (fin.candidates = <<>>) <=> (fout[1] = <<>>)
       /\ fout[1] # <<>>
          => /\ fout[1][1] \in Elements(fin.candidates)
             /\ \A j \in 1..Len(fin.candidates) :
                    notAfter(fout[1][1], fin.candidates[j])
             /\ fout[1][1].kind = "combo"
                => \A j \in 1..Len(fin.candidates) : fin.candidates[j].kind = "combo"

\* a single is chosen from a list that holds a combo with less waste and
\* an earlier start
C17_Witness ==
    /\ fout # <<>> /\ fout[1] # <<>>
    /\ fout[1][1].kind = "single"
    /\ \E j \in 1..Len(fin.candidates) :
          /\ fin.candidates[j].kind = "combo"
          /\ fin.candidates[j].waste < fout[1][1].waste
          /\ parseISO(fin.candidates[j].start) < parseISO(fout[1][1].start)

\* the summed minSize and maxSize of the tables of the input with the ids
seatsMin(ids) == SumSeq([i \in 1..Len(ids) |-> fin.tables[planTable(ids[i])].minSize])
seatsMax(ids) == SumSeq([i \in 1..Len(ids) |-> fin.tables[planTable(ids[i])].maxSize])

\* the ids are ids of different tables of the input
distinctTables(ids) ==
    /\ \A i \in 1..Len(ids) : \E t \in 1..Len(fin.tables) : fin.tables[t].id = ids[i]
    /\ \A i, j \in 1..Len(ids) : i # j => ids[i] # ids[j]

\* the subsets the combo phase walks through
planCombos == getAllCombinations(fin.tables)

\* C18: a 'single' candidate of findCandidates names one table t with
\* t.minSize <= partySize <= t.maxSize; a 'combo' candidate names at least
\* two different tables with sum(minSize) <= partySize <= sum(maxSize);
\* every subset of the tables is enumerated once, so one set of tables
\* never appears in two orders; the waste of every candidate is the summed
\* maxSize minus partySize and is >= 0.
C18_CapacityFit ==
    fout # <<>>
    => /\ \A i \in 1..Len(fout[1]) :
             LET c == fout[1][i] IN
             /\ distinctTables(c.tableIds)
             /\ c.kind = "single" => Len(c.tableIds) = 1
             /\ c.kind = "combo" => Len(c.tableIds) >= 2
             /\ seatsMin(c.tableIds) <= fin.partySize
             /\ fin.partySize <= seatsMax(c.tableIds)
             /\ c.waste = seatsMax(c.tableIds) - fin.partySize
             /\ c.waste >= 0
       /\ \A i, j \in 1..Len(fout[1]) :
             Elements(fout[1][i].tableIds) = Elements(fout[1][j].tableIds)
             => fout[1][i].tableIds = fout[1][j].tableIds
       /\ Len(planCombos) = 2 ^ Len(fin.tables)
       /\ \A i, j \in 1..Len(planCombos) :
             i # j => Elements(planCombos[i]) # Elements(planCombos[j])

\* a party of 4 is offered a single table, a combo that fits exactly and a
\* combo with two seats to spare
C18_Witness ==
    /\ fout # <<>>
    /\ fin.partySize = 4
    /\ \E i, j, k \in 1..Len(fout[1]) :
          /\ fout[1][i].kind = "single" /\ fout[1][i].waste = 0
          /\ fout[1][j].kind = "combo" /\ fout[1][j].waste = 0
          /\ fout[1][k].kind = "combo" /\ fout[1][k].waste = 2

MaxPartySize == 12

\* d is the duration of the policy for a party of n
policyDuration(n, d) ==
    /\ n <= 2 => d = 75
    /\ (2 < n /\ n <= 4) => d = 90
    /\ (4 < n /\ n <= 8) => d = 120
    /\ 8 < n => d = 150

cancelledAt(a, b, t) ==
    /\ b.status = "CANCELLED" /\ b.updatedAt = t
    /\ b.id = a.id /\ b.restaurantId = a.restaurantId /\ b.sectorId = a.sectorId
    /\ b.tableIds = a.tableIds /\ b.partySize = a.partySize
    /\ b.durationMinutes = a.durationMinutes
    /\ b.start = a.start /\ b.end = a.end

\* C20: a cancel request for an id no reservation has is answered 404
\* not_found and changes nothing in the store; for an id a reservation has
\* it is answered 204, that reservation gets the status CANCELLED and the
\* current time as updatedAt and keeps its other fields and its place in
\* the store, and every other reservation and the rest of the store are
\* unchanged.
C20_CancelById ==
    [][ev'.op = "bookingDelete"
       => /\ <<locks', idempotency', nextId'>> = <<locks, idempotency, nextId>>
          /\ IF hasBooking(bookings, ev'.id)
             THEN /\ ev'.status = 204
                  /\ Len(bookings') = Len(bookings)
                  /\ \A i \in 1..Len(bookings) :
                        IF bookings[i].id = ev'.id
                        THEN cancelledAt(bookings[i], bookings'[i], now)
                        ELSE bookings'[i] = bookings[i]
             ELSE /\ ev'.status = 404 /\ ev'.error = "not_found"
                  /\ bookings' = bookings]_vars

\* the seeded reservation was cancelled after the clock advanced, next to a
\* reservation a request created
C20_Witness ==
    /\ ev.op = "bookingDelete" /\ ev.status = 204 /\ ev.id = FirstId
    /\ now > StartNow
    /\ \E i, j \in 1..Len(bookings) :
          /\ bookings[i].id = ev.id
          /\ bookings[i].status = "CANCELLED" /\ bookings[i].updatedAt = now
          /\ created(bookings[j]) /\ active(bookings[j])

\* a cancel request for an id the store does not hold was answered 404
C20_WitnessUnknown ==
    /\ ev.op = "bookingDelete" /\ ev.status = 404
    /\ ~hasBooking(bookings, ev.id)
    /\ Len(bookings) > Len(SeedBookings)

\* the dates a listing is asked for
ListDates == {0, 1}

\* the local day and the local time of day "HH:mm" of the instant t
localDate(t) == (t - tz) \div MinutesPerDay
localTime(t) == <<((t - tz) % MinutesPerDay) \div 60, ((t - tz) % MinutesPerDay) % 60>>

\* the list items has an item with the id
listed(items, id) == \E i \in 1..Len(items) : items[i].id = id

\* the part of the interval of the reservation b inside the window w is
\* empty or inside one of the gaps
gapHolds(gaps, b, w) ==
    LET from == IF parseISO(b.start) > w.start THEN parseISO(b.start) ELSE w.start
        to == IF parseISO(b.end) < w.end THEN parseISO(b.end) ELSE w.end
    IN from < to
       => \E i \in 1..Len(gaps) : gaps[i].start <= from /\ to <= gaps[i].end

\* the local days the interval of the reservation b touches
localDates(b) == localDate(parseISO(b.start))..localDate(parseISO(b.end))

\* one of the candidates has the tables and the interval of the reservation b
offered(candidates, b) ==
    \E i \in 1..Len(candidates) :
        /\ candidates[i].tableIds = b.tableIds
        /\ parseISO(candidates[i].start) = parseISO(b.start)
        /\ parseISO(candidates[i].end) = parseISO(b.end)

\* the reservation b of the store bks is listed before the cancellation and
\* in no listing after it; findGaps over each full day b touches returns,
\* for each table of b, a gap that holds the part of the interval of b in
\* the searched day; when the interval lies in one local day, findCandidates
\* for the party of b over the interval of b offers it on the tables of b
freedBy(b, bks) ==
    /\ listed(getBookings(bookings, b.sectorId, b.start.d), b.id)
    /\ \A date \in ListDates : ~listed(getBookings(bks, b.sectorId, date), b.id)
    /\ \A t \in 1..Len(b.tableIds) : \A date \in localDates(b) :
          gapHolds(findGaps(b.tableIds[t], bks, date, 1, <<>>), b,
                   searchWindowsOf(date, <<>>)[1])
    /\ localDate(parseISO(b.start)) = localDate(parseISO(b.end))
       => offered(findCandidates(getTables(b.sectorId), bks, localDate(parseISO(b.start)),
                              b.partySize, b.durationMinutes,
                              <<[start |-> localTime(parseISO(b.start)),
                                 end |-> localTime(parseISO(b.end))]>>), b)

\* C21: when a reservation that is not yet cancelled is cancelled, it is in
\* no listing of its sector afterwards, and the interval it occupied is
\* again inside a gap findGaps returns for each of its tables and is a
\* candidate of findCandidates on those tables.
C21_CancelFrees ==
    [][(/\ ev'.op = "bookingDelete" /\ ev'.status = 204
        /\ hasBooking(bookings, ev'.id)
        /\ active(bookingOf(bookings, ev'.id)))
       => freedBy(bookingOf(bookings, ev'.id), bookings')]_vars

\* a request was committed on the tables of a cancelled reservation at an
\* overlapping time
C21_Witness ==
    /\ ev.op = "bookings" /\ ev.status = 201
    /\ \E i, j \in 1..Len(bookings) :
          /\ bookings[i].status = "CANCELLED"
          /\ bookings[j].id = ev.id /\ active(bookings[j])
          /\ bookings[j].id > bookings[i].id
          /\ sharesTable(bookings[i], bookings[j])
          /\ overlaps(bookings[i], bookings[j])

\* the candidates findCandidates gives discover for the query on the store
candidatesFor(query) ==
    findCandidates(getTables(query.sectorId), getAllBookings(bookings), query.date,
                   query.partySize, getDurationForPartySize(query.partySize),
                   searchWindowsFor(query, Restaurant))

\* the list returned is in the order of the selection strategy, its first
\* element is the choice of selectBestCandidate among all the candidates,
\* and no candidate left out is before a candidate returned
ranked(returned, all) ==
    /\ \A i, j \in 1..Len(returned) : i < j => notAfter(returned[i], returned[j])
    /\ <<returned[1]>> = selectBestCandidate(all)
    /\ \A i \in 1..Len(returned) : \A j \in 1..Len(all) :
          notAfter(returned[i], all[j]) \/ all[j] \in Elements(returned)

\* C22: the candidate list a discovery returns is ordered by the selection
\* strategy (single before combo, then waste, then start, then table ids):
\* its first element is the candidate selectBestCandidate chooses on the
\* same store, and the truncation to the limit keeps the best-ranked
\* candidates.
C22_DiscoverRanked ==
    [][(ev'.op = "discover" /\ ev'.status = 200)
       => ranked(fout'[1].candidates, candidatesFor(fin'))]_vars

\* a discovery was answered with a list whose first candidate wastes seats
\* while a later candidate of the list wastes none and starts no later
C22_Witness ==
    /\ ev.op = "discover" /\ ev.status = 200
    /\ \E i \in 2..Len(fout[1].candidates) :
          /\ fout[1].candidates[i].kind = fout[1].candidates[1].kind
          /\ fout[1].candidates[i].waste < fout[1].candidates[1].waste
          /\ parseISO(fout[1].candidates[i].start) <= parseISO(fout[1].candidates[1].start)

\* "HH:mm" as minutes of the day
minuteOfDay(time) == time[1] * 60 + time[2]

\* the request r (a body or a query) names a window
hasWindow(r) == r.windowStart # undefined /\ r.windowEnd # undefined

\* the window the request names has no instant in common with a service
\* window of the restaurant
outsideService(r) ==
    /\ hasWindow(r)
    /\ \A k \in 1..Len(Restaurant.windows) :
          \/ minuteOfDay(r.windowEnd) <= minuteOfDay(Restaurant.windows[k].start)
          \/ minuteOfDay(Restaurant.windows[k].end) <= minuteOfDay(r.windowStart)

\* C23: a booking request whose explicit window lies entirely outside
\* every service window of the restaurant is answered 409 no_capacity and
\* creates no reservation, whatever the length of the window.
C23_OutsideServiceHours ==
    [][(ev'.op = "bookings" /\ validBody(ev'.body) /\ outsideService(ev'.body)
        /\ ev'.body.restaurantId = Restaurant.id)
       => (ev'.status = 409 /\ ev'.error = "no_capacity" /\ bookings' = bookings)]_vars

\* a request with a window outside the service windows was answered 201 and
\* its reservation is in the store
C23_Witness ==
    /\ ev.op = "bookings" /\ ev.status = 201 /\ outsideService(ev.body)
    /\ \E i \in 1..Len(bookings) :
          /\ bookings[i].id = ev.id /\ active(bookings[i])
          /\ minuteOfDay(localTime(parseISO(bookings[i].end)))
             <= minuteOfDay(Restaurant.windows[1].start)

\* the table tableId has no active reservation during an instant of [a, b)
tableFree(tableId, a, b) ==
    \A i \in 1..Len(bookings) :
        ~(/\ active(bookings[i]) /\ Includes(bookings[i].tableIds, tableId)
          /\ parseISO(bookings[i].start) < b /\ a < parseISO(bookings[i].end))

\* [t, t + d] lies in the local day of t
inOneDay(t, d) == ((t - tz) % MinutesPerDay) + d < MinutesPerDay

\* some gap starts at t
gapFrom(gaps, t) == \E i \in 1..Len(gaps) : gaps[i].start = t

\* for the table, free for d minutes after the instant t: findGaps over the
\* window [t, t + d] returns the whole window and findGaps over the full day
\* returns a gap that starts at t
gapsTouch(tableId, t, d) ==
    /\ findGaps(tableId, bookings, localDate(t), d,
                <<[start |-> localTime(t), end |-> localTime(t + d)]>>)
       = <<TimeSlot(t, t + d)>>
    /\ gapFrom(findGaps(tableId, bookings, localDate(t), d, <<>>), t)

\* the window of the body starts where an active reservation ends on a table
\* of the sector that seats the party and is free for the duration after
\* that instant, and the window is at least the duration long
startsAtAnEnd(body) ==
    /\ hasWindow(body)
    /\ minuteOfDay(body.windowEnd) - minuteOfDay(body.windowStart)
       >= getDurationForPartySize(body.partySize)
    /\ \E i \in 1..Len(bookings), k \in 1..Len(Tables) :
          /\ active(bookings[i]) /\ Includes(bookings[i].tableIds, Tables[k].id)
          /\ Tables[k].sectorId = body.sectorId
          /\ Tables[k].minSize <= body.partySize /\ body.partySize <= Tables[k].maxSize
          /\ parseISO(bookings[i].end) = parseTime(body.date, body.windowStart)
          /\ tableFree(Tables[k].id, parseISO(bookings[i].end),
                       parseISO(bookings[i].end) + getDurationForPartySize(body.partySize))

\* C24: intervals are half-open.  For an active reservation that ends at t
\* on a table that is free for the duration after t, findGaps returns a gap
\* that starts at t, and a window that starts at t is returned whole; a
\* booking request whose window starts at t and is long enough is committed.
C24_HalfOpen ==
    [][/\ \A i \in 1..Len(bookings) : \A k \in 1..Len(bookings[i].tableIds) :
            (/\ active(bookings[i])
             /\ inOneDay(parseISO(bookings[i].end), 75)
             /\ tableFree(bookings[i].tableIds[k], parseISO(bookings[i].end),
                          parseISO(bookings[i].end) + 75))
            => gapsTouch(bookings[i].tableIds[k], parseISO(bookings[i].end), 75)
       /\ (/\ ev'.op = "bookings" /\ validBody(ev'.body)
           /\ ev'.body.restaurantId = Restaurant.id
           /\ startsAtAnEnd(ev'.body))
          => ev'.status = 201]_vars

\* a request was committed on a table at the instant another active
\* reservation of that table ends
C24_Witness ==
    /\ ev.op = "bookings" /\ ev.status = 201
    /\ \E i, j \in 1..Len(bookings) :
          /\ bookings[j].id = ev.id
          /\ i # j /\ active(bookings[i]) /\ created(bookings[i])
          /\ sharesTable(bookings[i], bookings[j])
          /\ parseISO(bookings[i].end) = parseISO(bookings[j].start)

\* C25: a record written by setIdempotency(key, r, ttl) at t0 expires at
\* t0 + ttl.  A booking request that carries the key at a time
\* t < t0 + ttl is answered with r and the entry stays; at a time
\* t >= t0 + ttl the lookup returns undefined and removes the entry, and the
\* request goes on as one without a record: when it is committed a new
\* reservation is recorded under the key for ttl from now, otherwise the
\* key has no entry afterwards.
C25_IdempotencyExpiry ==
    [][(ev'.op = "bookings" /\ ev'.key # NoKey /\ ev'.key \in DOMAIN idempotency)
       => IF now < idempotency[ev'.key].expiresAt
          THEN /\ ev'.status = 200 /\ ev'.id = idempotency[ev'.key].booking
               /\ idempotency' = idempotency
          ELSE /\ ev'.status # 200
               /\ ev'.status = 201
                  => /\ ev'.id = nextId
                     /\ ev'.key \in DOMAIN idempotency'
                     /\ idempotency'[ev'.key]
                        = [booking |-> nextId, expiresAt |-> now + IdempotencyTtlMs]
               /\ ev'.status # 201 => ev'.key \notin DOMAIN idempotency']_vars

\* at the instant the record of a reservation committed at the start
\* expired, a request with a key was committed anew and recorded
C25_Witness ==
    /\ ev.op = "bookings" /\ ev.status = 201 /\ ev.key # NoKey
    /\ now = StartNow + IdempotencyTtlMs
    /\ idempotency[ev.key] = [booking |-> ev.id, expiresAt |-> now + IdempotencyTtlMs]
    /\ \E i \in 1..Len(bookings) :
          /\ created(bookings[i]) /\ bookings[i].id < ev.id
          /\ bookings[i].updatedAt = StartNow
          /\ samePayload(bookings[i], ev.body)

\* the request r names a restaurant or a sector the store does not hold
unknownScope(r) == getRestaurant(r.restaurantId) = <<>> \/ getSector(r.sectorId) = <<>>

\* C26: a booking request and a discovery request that name a restaurant or
\* a sector that is not in the store are answered 404 not_found, and the
\* booking request creates no reservation.
C26_UnknownScopeNotFound ==
    [][/\ (ev'.op = "bookings" /\ validBody(ev'.body) /\ unknownScope(ev'.body))
          => (ev'.status = 404 /\ bookings' = bookings)
       /\ (ev'.op = "discover" /\ validQuery(fin') /\ unknownScope(fin'))
          => ev'.status = 404]_vars

\* a booking request for a sector the store does not hold was answered 409
\* no_capacity
C26_Witness ==
    /\ ev.op = "bookings" /\ ev.status = 409 /\ ev.error = "no_capacity"
    /\ getRestaurant(ev.body.restaurantId) # <<>>
    /\ getSector(ev.body.sectorId) = <<>>

\* discovery answers 404 for an unknown restaurant and for an unknown sector
C26_DiscoverNotFound ==
    [][(ev'.op = "discover" /\ validQuery(fin') /\ unknownScope(fin'))
       => (ev'.status = 404 /\ ev'.error = "not_found")]_vars

\* the window the request names has start >= end
inverted(r) == hasWindow(r) /\ minuteOfDay(r.windowStart) >= minuteOfDay(r.windowEnd)

\* C27: a discovery or booking request whose window has start >= end is
\* rejected as an invalid interval: it is answered with an error that is
\* not no_capacity, and it creates no reservation.
C27_InvertedWindowRejected ==
    [][/\ (ev'.op = "bookings" /\ validBody(ev'.body) /\ inverted(ev'.body))
          => (ev'.status >= 400 /\ ev'.error # "no_capacity" /\ bookings' = bookings)
       /\ (ev'.op = "discover" /\ validQuery(fin') /\ inverted(fin'))
          => (ev'.status >= 400 /\ ev'.error # "no_capacity")]_vars

\* a booking request with the window 22:00-20:00 was answered 409
\* no_capacity on a store with no reservation but the seeded one
C27_Witness ==
    /\ ev.op = "bookings" /\ ev.status = 409 /\ ev.error = "no_capacity"
    /\ inverted(ev.body)
    /\ minuteOfDay(ev.body.windowStart) > minuteOfDay(ev.body.windowEnd)
    /\ bookings = SeedBookings

\* a request with an inverted or empty window creates no reservation
C27_InvertedCreatesNothing ==
    [][(ev'.op = "bookings" /\ validBody(ev'.body) /\ inverted(ev'.body))
       => (ev'.status # 201 /\ bookings' = bookings)]_vars

\* midnight at the start of the day searched
dayStart == parseTime(0, <<0, 0>>)

\* one of the candidates ends at the instant t
endsAt(candidates, t) == \E i \in 1..Len(candidates) : parseISO(candidates[i].end) = t

\* C28: when no search window is given, findGaps searches the full day: for
\* a table with no active reservation it returns one gap from 00:00 to the
\* end of the day (24:00), and a candidate that ends at the end of the day
\* is offered.
C28_FullDayDefault ==
    (fout # <<>> /\ fin.windows = <<>> /\ covering = {})
    => /\ fout[1] = <<TimeSlot(dayStart, dayStart + MinutesPerDay)>>
       /\ endsAt(discretizeGaps(fout[1], fin.duration, <<"T1">>, "single", 0),
                 dayStart + MinutesPerDay)

\* with no window and no reservation on the table the gap returned ends one
\* minute before the end of the day and the last candidate at 23:45
C28_Witness ==
    /\ fout # <<>> /\ fin.windows = <<>> /\ covering = {}
    /\ fout[1] = <<TimeSlot(dayStart, dayStart + MinutesPerDay - 1)>>
    /\ endsAt(discretizeGaps(fout[1], fin.duration, <<"T1">>, "single", 0),
              dayStart + MinutesPerDay - 15)
    /\ ~endsAt(discretizeGaps(fout[1], fin.duration, <<"T1">>, "single", 0),
               dayStart + MinutesPerDay)

\* the step is a call of acquireLock, by the store's user or by a request
acquiring(e) == e.op = "acquireLock" \/ reachedLock(e)

\* C29: an entry written at t0 with a term ttl and never deleted makes every
\* acquireLock on its key at a time t < t0 + ttl fail and every acquireLock
\* at a time t >= t0 + ttl succeed; with the clock advancing, a request that
\* is retried after a holder took the lease and crashed eventually acquires
\* it.
C29_LeaseTtlRecovery ==
    /\ [][(acquiring(ev') /\ ev'.lk \in DOMAIN locks)
          => (ev'.acquired <=> now >= locks[ev'.lk])]_vars
    /\ (ev.op = "acquireLock" /\ ev.acquired)
       ~> (retried /\ ev.acquired)

\* half a term after the holder took the lease the retried request is still
\* answered conflict
C29_Witness ==
    /\ retried
    /\ ev.status = 409 /\ ev.error = "conflict"
    /\ now = StartNow + (LockTtlMs \div 2)
    /\ ev.lk \in DOMAIN locks /\ locks[ev.lk] = StartNow + LockTtlMs

\* at the instant the term of the crashed holder ends the retried request
\* acquires the lease
C29_WitnessRecovered ==
    /\ retried /\ ev.acquired
    /\ now = StartNow + LockTtlMs

\* C30: mutual exclusion of guarded sections.  A booking request enters its
\* guarded section only when its key has no unexpired lease, no other
\* request runs before it has given its lease back, also when the clock
\* passes the expiry of the lease meanwhile, and what its releaseLock removes
\* is the entry its own acquireLock wrote: a request that did not acquire
\* leaves the lease map as it was, and one that did leaves every other
\* holder's entry in place and no entry of its own.
C30_GuardedSections ==
    [][ev'.op = "bookings"
       => /\ ~ev'.acquired => locks' = locks
          /\ ev'.acquired
              => /\ ~held(ev'.lk)
                 /\ locks' = MapDelete(locks, ev'.lk)
                 /\ \A k \in DOMAIN locks : held(k) => (k \in DOMAIN locks' /\ locks'[k] = locks[k])
          /\ \A k \in DOMAIN locks' : k \in DOMAIN locks /\ locks'[k] = locks[k]]_vars

\* a request committed a reservation in a guarded section that outlived the
\* term of its lease, while the map holds the entry of another key
C30_Witness ==
    /\ ev.op = "bookings" /\ ev.acquired /\ ev.status = 201
    /\ \E i \in 1..Len(bookings) :
          /\ bookings[i].id = ev.id
          /\ now >= bookings[i].updatedAt + LockTtlMs
    /\ ev.lk \notin DOMAIN locks
    /\ \E k \in DOMAIN locks : k # ev.lk

\* the entries of the idempotency map that have expired
expiredKeys == {k \in DOMAIN idempotency : idempotency[k].expiresAt <= now}

\* C31: the background sweep is invisible to readers.  After any sequence of
\* setIdempotency, getIdempotency, sweeps and clock advances, getIdempotency
\* returns what it returns on the map the same calls leave when the sweep
\* never runs; a sweep removes exactly the entries with expiresAt <= now and
\* leaves every other entry as it was.
C31_SweepInvisible ==
    [][/\ ev'.op = "getIdempotency" => fout'[1] = fout'[2]
       /\ (ev' = NoEvent /\ now' = now)
           => /\ DOMAIN idempotency' = DOMAIN idempotency \ expiredKeys
              /\ \A k \in DOMAIN idempotency' : idempotency'[k] = idempotency[k]]_vars

\* a read that hit an unexpired entry after a sweep had evicted an expired one
\* the unswept map still holds
C31_Witness ==
    /\ ev.op = "getIdempotency" /\ fout[1] # NoBooking
    /\ \E k \in DOMAIN fin : k \notin DOMAIN idempotency /\ fin[k].expiresAt <= now

\* what selectBestCandidate returns on the candidates of the request body,
\* computed on the reservations the store holds before the step
bestFor(body) ==
    selectBestCandidate(
        findCandidates(getTables(body.sectorId), bookings, body.date, body.partySize,
                       getDurationForPartySize(body.partySize),
                       searchWindowsFor(body, Restaurant)))

sectorOfTable(tableId) ==
    {Tables[i].sectorId : i \in {j \in 1..Len(Tables) : Tables[j].id = tableId}}

\* the step added one reservation, the last of the map, made of best
committedAs(best, body, id) ==
    /\ best # <<>>
    /\ Len(bookings') = Len(bookings) + 1
    /\ SubSeq(bookings', 1, Len(bookings)) = bookings
    /\ LET b == bookings'[Len(bookings')] IN
          /\ b.id = id
          /\ b.status = "CONFIRMED"
          /\ b.sectorId = body.sectorId
          /\ b.partySize = body.partySize
          /\ b.tableIds = best[1].tableIds
          /\ b.start = best[1].start
          /\ b.end = best[1].end
          /\ \A i \in 1..Len(b.tableIds) : sectorOfTable(b.tableIds[i]) = {body.sectorId}

\* C32: commit equals best candidate.  A booking request answered 201 adds
\* exactly one reservation and changes no other; it is CONFIRMED, has the
\* sector and the party size of the request, and its tables, start and end
\* are those of selectBestCandidate(findCandidates(...)) on the reservations
\* the store held when the handler ran; its tables are tables of the
\* requested sector.
C32_CommitEqualsBest ==
    [][(ev'.op = "bookings" /\ ev'.status = 201)
       => committedAs(bestFor(ev'.body), ev'.body, ev'.id)]_vars

\* a party of six was committed on a combination of tables of its sector
\* although a single table of another sector would seat it
C32_Witness ==
    /\ ev.op = "bookings" /\ ev.status = 201 /\ ev.body.partySize = 6
    /\ \E i \in 1..Len(bookings) :
          /\ bookings[i].id = ev.id
          /\ Len(bookings[i].tableIds) > 1
    /\ \E j \in 1..Len(Tables) :
          /\ Tables[j].sectorId # ev.body.sectorId
          /\ Tables[j].minSize <= 6 /\ 6 <= Tables[j].maxSize

\* C33: listing by scope and date.  The reservation a booking request for
\* sector S and date D has just committed is among the items the listing
\* returns for (S, D) and among the items of no other date.
C33_ListingByDate ==
    [][(ev'.op = "bookings" /\ ev'.status = 201)
       => /\ listed(getBookings(bookings', ev'.body.sectorId, ev'.body.date), ev'.id)
          /\ \A d \in ListDates \ {ev'.body.date} :
                ~listed(getBookings(bookings', ev'.body.sectorId, d), ev'.id)]_vars

\* on a server three hours behind UTC a reservation was committed whose
\* start, written by toISOString, carries the date after the requested one
C33_Witness ==
    /\ tz = 180
    /\ ev.op = "bookings" /\ ev.status = 201
    /\ \E i \in 1..Len(bookings) :
          /\ bookings[i].id = ev.id
          /\ bookings[i].start.d = ev.body.date + 1
          /\ ~listed(getBookings(bookings, ev.body.sectorId, ev.body.date), ev.id)
          /\ listed(getBookings(bookings, ev.body.sectorId, ev.body.date + 1), ev.id)

\* the record at place i of the map is kept by the step: same id, tables and
\* interval, and still CANCELLED if it was
kept(i) ==
    /\ i <= Len(bookings')
    /\ bookings'[i].id = bookings[i].id
    /\ bookings'[i].tableIds = bookings[i].tableIds
    /\ bookings'[i].start = bookings[i].start
    /\ bookings'[i].end = bookings[i].end
    /\ bookings[i].status = "CANCELLED" => bookings'[i].status = "CANCELLED"

\* C34: reservation lifecycle.  No step of the server removes a stored
\* reservation, changes its tables or its interval, or turns its status from
\* CANCELLED back to CONFIRMED; the cancellation of a reservation that is
\* already cancelled is answered 204 and leaves it CANCELLED.
C34_Lifecycle ==
    [][/\ \A i \in 1..Len(bookings) : kept(i)
       /\ \A i \in 1..Len(bookings) :
             (ev'.op = "bookingDelete" /\ ev'.id = bookings[i].id
                /\ bookings[i].status = "CANCELLED")
             => (ev'.status = 204 /\ bookings'[i].status = "CANCELLED")]_vars

\* a reservation was cancelled again after another reservation had been
\* committed on the table and the interval its first cancellation freed
C34_Witness ==
    /\ ev.op = "bookingDelete" /\ ev.status = 204
    /\ \E i, j \in 1..Len(bookings) :
          /\ bookings[i].id = ev.id /\ ~active(bookings[i])
          /\ created(bookings[j]) /\ active(bookings[j])
          /\ sharesTable(bookings[i], bookings[j])
          /\ overlaps(bookings[i], bookings[j])

\* C35: the idempotency lookup ignores the payload.  A booking request whose
\* idempotency key has an unexpired record is answered 200 with the recorded
\* reservation whatever its body is, valid or not, and whether or not the
\* lease of its lock key is held: it is not validated, takes no lease, and
\* leaves the reservations, the leases and the idempotency map as they were.
C35_LookupIgnoresPayload ==
    [][(ev'.op = "bookings" /\ recorded(ev'.key))
       => /\ ev'.status = 200 /\ ev'.error = ""
          /\ ev'.id = idempotency[ev'.key].booking
          /\ hasBooking(bookings, ev'.id)
          /\ ~ev'.acquired
          /\ bookings' = bookings /\ nextId' = nextId
          /\ locks' = locks
          /\ idempotency' = idempotency]_vars

\* a request with an invalid body was answered 200 with the recorded
\* reservation while another caller holds a lease
C35_Witness ==
    /\ ev.op = "bookings" /\ ev.status = 200
    /\ ~validBody(ev.body)
    /\ recorded(ev.key) /\ ev.id = idempotency[ev.key].booking
    /\ \E k \in DOMAIN locks : held(k)

\* the reservation recorded under key has been cancelled
recordedCancelled(key) ==
    /\ recorded(key)
    /\ hasBooking(bookings, idempotency[key].booking)
    /\ bookingOf(bookings, idempotency[key].booking).status = "CANCELLED"

\* C36: retry after cancellation.  A booking request that carries a key
\* whose record has not expired and whose recorded reservation has been
\* cancelled is answered 200 with that reservation, the record of the store
\* the map refers to, whose status is CANCELLED; no reservation is created
\* and none is changed.
C36_RetryAfterCancellation ==
    [][(ev'.op = "bookings" /\ recordedCancelled(ev'.key))
       => /\ ev'.status = 200
          /\ ev'.id = idempotency[ev'.key].booking
          /\ bookingOf(bookings', ev'.id).status = "CANCELLED"
          /\ bookings' = bookings /\ nextId' = nextId]_vars

\* the request that was committed under the key was repeated after the
\* cancellation of its reservation and answered with it
C36_Witness ==
    /\ ev.op = "bookings" /\ ev.status = 200 /\ ev.key # NoKey
    /\ recordedCancelled(ev.key)
    /\ ev.id = idempotency[ev.key].booking
    /\ samePayload(bookingOf(bookings, ev.id), ev.body)

=============================================================================
